---- MODULE Spec2Model ----
(***************************************************************************)
(* A model of quibraries' request construction and pagination engine:     *)
(* the session keeper (LibIOSessionBase / LibIOSession), the request      *)
(* factory, the single-shot caller and the paginating iterator            *)
(* (LibIOIterableRequest), with the URI and parameter handlers of the     *)
(* Search and Subscribe APIs.                                             *)
(*                                                                         *)
(* Python values are modelled as follows.  A mapping (kwargs, session     *)
(* parameters) is a function whose domain is the set of keys present.     *)
(* A string that ends up in a URI is a sequence of atoms (characters or   *)
(* literal tokens).  An exception is the name of its class; "" means that *)
(* nothing was raised.                                                    *)
(***************************************************************************)
EXTENDS Integers, Sequences, FiniteSets, TLC

(***************************************************************************)
(* Generic helpers for mappings.                                           *)
(***************************************************************************)
EmptyMap == [x \in {} |-> 0]

Put(m, k, v) == [x \in (DOMAIN m) \cup {k} |-> IF x = k THEN v ELSE m[x]]

Has(m, k) == k \in DOMAIN m

Max(a, b) == IF a >= b THEN a ELSE b

Min(a, b) == IF a <= b THEN a ELSE b

\* Python's None where a string is expected (the API key).
NoneVal == "<None>"

(***************************************************************************)
(* http_ops.py, consts.py                                                  *)
(***************************************************************************)
GET == "get"

POST == "post"

PUT == "put"

DELETE == "delete"

HttpOperation == {GET, POST, PUT, DELETE}

\* Values that are not members of HttpOperation: a plain string (which has
\* no .value attribute) and a member of another enumeration (which has one).
BadVerbStr == "patch"

BadVerbEnum == "SearchOperationTypes.PLATFORMS"

HasValueAttr(req_type) == req_type \in HttpOperation \cup {BadVerbEnum}

QB_DEFAULT_PAGE == 1

QB_DEFAULT_PER_PAGE == 30

PER_PAGE_MAX == 100

(***************************************************************************)
(* Strings and urllib.parse.quote(s, safe="").  A string is a sequence of  *)
(* atoms: a reserved character, which quote percent-encodes, or a token of *)
(* unreserved characters, which quote leaves alone.                        *)
(***************************************************************************)
Reserved == {"/", "?", " ", "%", "&"}

PercentCode(c) ==
    CASE c = "/" -> <<"%", "2", "F">>
      [] c = "?" -> <<"%", "3", "F">>
      [] c = " " -> <<"%", "2", "0">>
      [] c = "%" -> <<"%", "2", "5">>
      [] OTHER -> <<"%", "2", "6">>

\* quote leaving every character as it is.
quote_nothing(s) == s

RECURSIVE quote(_)
quote(s) ==
    IF s = <<>> THEN <<>>
    ELSE (IF Head(s) \in Reserved THEN PercentCode(Head(s)) ELSE <<Head(s)>>)
         \o quote(Tail(s))

\* A keyword-argument value: a Python str or some other object (None).
Str(s) == [isstr |-> TRUE, s |-> s]

NotStr == [isstr |-> FALSE, s |-> <<>>]

\* "/".join(list of strings)
RECURSIVE Join(_)
Join(segs) ==
    IF segs = <<>> THEN <<>>
    ELSE IF Len(segs) = 1 THEN segs[1]
    ELSE segs[1] \o <<"/">> \o Join(Tail(segs))

LB_BASE_API_URI == <<"https://libraries.io/api">>

LB_SUBSCRIPTIONS_API_URI == LB_BASE_API_URI \o <<"/", "subscriptions">>

(***************************************************************************)
(* search_ops.py, subscribe_ops.py: the operation catalog.                 *)
(***************************************************************************)
SearchOperationTypes ==
    {"platforms", "project", "project-dependencies", "project-dependents",
     "project-dependent-repositories", "project-contributors",
     "project-sourcerank", "project-search", "repository",
     "repository-dependencies", "repository-projects", "user",
     "user-repositories", "repository-contributions", "user-packages",
     "user-packages-contributions", "user-dependencies"}

SubscribeOperationTypes ==
    {"user-subscriptions", "subscribe-user-to-project",
     "unsubscribe-user-from-project", "check-if-subscribed",
     "update-subscription-to-project"}

(***************************************************************************)
(* arg_ops.py (ArgumentTypes, TailEndpoints): the values of the members.   *)
(* The handlers look a member's value up in the keyword arguments, and the *)
(* facades pass platform=, project=, version=, host=, owner=, repo=,       *)
(* user=, query=, filters=, sort=.                                         *)
(***************************************************************************)
ArgumentTypes ==
    [PLATFORM |-> "platform", PROJECT |-> "project", VERSION |-> "version",
     HOST |-> "host", OWNER |-> "owner", REPO |-> "repo", USER |-> "user",
     QUERY |-> "query", FILTERS |-> "filters", SORT |-> "sort",
     SEARCH |-> "search"]

TailEndpoints ==
    [PLATFORMS |-> "platforms", DEPENDENCIES |-> "dependencies",
     DEPENDENTS |-> "dependents",
     DEPENDENT_REPOSITORIES |-> "dependent_repositories",
     CONTRIBUTORS |-> "contributors", SOURCERANK |-> "sourcerank",
     PROJECTS |-> "projects", REPOSITORIES |-> "repositories",
     PROJECT_CONTRIBUTIONS |-> "project-contributions",
     REPOSITORY_CONTRIBUTIONS |-> "repository-contributions"]

(***************************************************************************)
(* helpers.py: from_kwargs.  The values of the keys, in the order of the   *)
(* keys; a str is quoted, anything else is passed on as it is.  The first  *)
(* key that is not in kwargs raises ArgumentMissingError (from KeyError).  *)
(***************************************************************************)
\* from_kwargs passing over the keys that are not in kwargs.
from_kwargs_present_only(keys, kwargs) ==
    [err |-> "", missing |-> "",
     vals |-> [i \in 1..Len(SelectSeq(keys, LAMBDA k : Has(kwargs, k))) |->
                  kwargs[SelectSeq(keys, LAMBDA k : Has(kwargs, k))[i]]]]

RECURSIVE from_kwargs(_, _)
from_kwargs(keys, kwargs) ==
    IF keys = <<>> THEN [err |-> "", missing |-> "", vals |-> <<>>]
    ELSE IF ~Has(kwargs, Head(keys))
         THEN [err |-> "ArgumentMissingError", missing |-> Head(keys), vals |-> <<>>]
         ELSE LET v == kwargs[Head(keys)]
                  item == IF v.isstr THEN Str(quote(v.s)) ELSE v
                  rest == from_kwargs(Tail(keys), kwargs)
              IN IF rest.err # "" THEN rest
                 ELSE [err |-> "", missing |-> "", vals |-> <<item>> \o rest.vals]

\* "/".join(uri_list) of a base, the extracted values and an optional tail:
\* str.join raises TypeError on an item that is not a str.
JoinUri(base, vals, tail) ==
    IF \E i \in 1..Len(vals) : ~vals[i].isstr
    THEN [err |-> "TypeError", missing |-> "", uri |-> <<>>]
    ELSE [err |-> "", missing |-> "",
          uri |-> Join(<<base>> \o [i \in 1..Len(vals) |-> vals[i].s] \o tail)]

(***************************************************************************)
(* search_helpers.py: SearchAPI._uri_handler.  For each case of the match  *)
(* statement, the keys handed to from_kwargs and the tail appended; an     *)
(* operation no case matches leaves the list with the base URI alone.      *)
(***************************************************************************)
SearchUriCase(op) ==
    LET A == ArgumentTypes
        T == TailEndpoints
    IN CASE op = "platforms" -> [keys |-> <<>>, tail |-> <<T.PLATFORMS>>]
         [] op = "project" -> [keys |-> <<A.PLATFORM, A.PROJECT>>, tail |-> <<>>]
         [] op = "project-dependencies" ->
                [keys |-> <<A.PLATFORM, A.PROJECT, A.VERSION>>, tail |-> <<T.DEPENDENCIES>>]
         [] op = "project-dependents" ->
                [keys |-> <<A.PLATFORM, A.PROJECT>>, tail |-> <<T.DEPENDENTS>>]
         [] op = "project-dependent-repositories" ->
                [keys |-> <<A.PLATFORM, A.PROJECT>>, tail |-> <<T.DEPENDENT_REPOSITORIES>>]
         [] op = "project-contributors" ->
                [keys |-> <<A.PLATFORM, A.PROJECT>>, tail |-> <<T.CONTRIBUTORS>>]
         [] op = "project-sourcerank" ->
                [keys |-> <<A.PLATFORM, A.PROJECT>>, tail |-> <<T.SOURCERANK>>]
         [] op = "project-search" -> [keys |-> <<>>, tail |-> <<A.SEARCH>>]
         [] op = "repository" -> [keys |-> <<A.HOST, A.OWNER, A.REPO>>, tail |-> <<>>]
         [] op = "repository-dependencies" ->
                [keys |-> <<A.HOST, A.OWNER, A.REPO>>, tail |-> <<T.DEPENDENCIES>>]
         [] op = "repository-projects" ->
                [keys |-> <<A.HOST, A.OWNER, A.REPO>>, tail |-> <<T.PROJECTS>>]
         [] op = "user" -> [keys |-> <<A.HOST, A.USER>>, tail |-> <<>>]
         [] op = "user-repositories" ->
                [keys |-> <<A.HOST, A.USER>>, tail |-> <<T.REPOSITORIES>>]
         [] op = "user-packages" -> [keys |-> <<A.HOST, A.USER>>, tail |-> <<T.PROJECTS>>]
         [] op = "user-packages-contributions" ->
                [keys |-> <<A.HOST, A.USER>>, tail |-> <<T.PROJECT_CONTRIBUTIONS>>]
         [] op = "repository-contributions" ->
                [keys |-> <<A.HOST, A.USER>>, tail |-> <<T.REPOSITORY_CONTRIBUTIONS>>]
         [] op = "user-dependencies" ->
                [keys |-> <<A.HOST, A.USER>>, tail |-> <<T.DEPENDENCIES>>]
         [] OTHER -> [keys |-> <<>>, tail |-> <<>>]

\* The tail tokens as path segments.
Segments(tail) == [i \in 1..Len(tail) |-> <<tail[i]>>]

\* Search_uri_handler with the test of the positional arguments made after
\* the keyword arguments were read.
Search_uri_handler_args_last(op, nargs, kwargs) ==
    IF from_kwargs(SearchUriCase(op).keys, kwargs).err # ""
    THEN [err |-> from_kwargs(SearchUriCase(op).keys, kwargs).err,
          missing |-> from_kwargs(SearchUriCase(op).keys, kwargs).missing, uri |-> <<>>]
    ELSE IF nargs > 0 THEN [err |-> "UnnamedArgumentError", missing |-> "", uri |-> <<>>]
    ELSE JoinUri(LB_BASE_API_URI, from_kwargs(SearchUriCase(op).keys, kwargs).vals,
                 Segments(SearchUriCase(op).tail))

\* nargs is len(args), the number of positional arguments.
Search_uri_handler(op, nargs, kwargs) ==
    IF nargs > 0
    THEN [err |-> "UnnamedArgumentError", missing |-> "", uri |-> <<>>]
    ELSE LET c == SearchUriCase(op)
             got == from_kwargs(c.keys, kwargs)
         IN IF got.err # ""
            THEN [err |-> got.err, missing |-> got.missing, uri |-> <<>>]
            ELSE JoinUri(LB_BASE_API_URI, got.vals, Segments(c.tail))

(***************************************************************************)
(* subscribe_helpers.py: SubscribeAPI._uri_handler.                        *)
(***************************************************************************)
Subscribe_uri_handler(op, nargs, kwargs) ==
    IF nargs > 0
    THEN [err |-> "UnnamedArgumentError", missing |-> "", uri |-> <<>>]
    ELSE IF op # "user-subscriptions"
         THEN LET got == from_kwargs(<<ArgumentTypes.PLATFORM, ArgumentTypes.PROJECT>>, kwargs)
              IN IF got.err # ""
                 THEN [err |-> got.err, missing |-> got.missing, uri |-> <<>>]
                 ELSE JoinUri(LB_SUBSCRIPTIONS_API_URI, got.vals, <<>>)
         ELSE JoinUri(LB_SUBSCRIPTIONS_API_URI, <<>>, <<>>)

\* kwargs["uri_handler"](op, *args, **kwargs); the default handler is None,
\* and calling None raises TypeError.
SearchHandlers == "SearchAPI"

SubscribeHandlers == "SubscribeAPI"

NoHandler == "None"

CallUriHandler(h, op, nargs, kwargs) ==
    CASE h = SearchHandlers -> Search_uri_handler(op, nargs, kwargs)
      [] h = SubscribeHandlers -> Subscribe_uri_handler(op, nargs, kwargs)
      [] OTHER -> [err |-> "TypeError", missing |-> "", uri |-> <<>>]

(***************************************************************************)
(* search_helpers.py: SearchAPI._param_handler.  The assignments made      *)
(* before an exception is raised stay in the session parameters.  A value  *)
(* that may be None is <<>> for None and <<v>> otherwise.                  *)
(***************************************************************************)
QuoteAll(items) == {quote(i) : i \in items}

Search_param_handler(op, sess_params, kwargs) ==
    IF op # "project-search" THEN [err |-> "", params |-> sess_params]
    ELSE
    LET A == ArgumentTypes
        hasQ == Has(kwargs, A.QUERY)
        qBad == hasQ /\ ~kwargs[A.QUERY].isstr
        p1 == IF hasQ /\ ~qBad THEN Put(sess_params, "q", quote(kwargs[A.QUERY].s))
              ELSE sess_params
        hasF == Has(kwargs, A.FILTERS)
        fBad == hasF /\ kwargs[A.FILTERS] = <<>>
        flt == IF hasF /\ ~fBad THEN kwargs[A.FILTERS][1] ELSE EmptyMap
        p2 == [k \in (DOMAIN p1) \cup (DOMAIN flt) |->
                  IF k \in DOMAIN flt THEN QuoteAll(flt[k]) ELSE p1[k]]
        hasS == Has(kwargs, A.SORT)
        sBad == hasS /\ kwargs[A.SORT] = <<>>
        p3 == IF hasS /\ ~sBad THEN Put(p2, A.SORT, quote(kwargs[A.SORT][1])) ELSE p2
    IN IF qBad THEN [err |-> "TypeError", params |-> sess_params]
       ELSE IF fBad THEN [err |-> "AttributeError", params |-> p1]
       ELSE IF sBad THEN [err |-> "AttributeError", params |-> p2]
       ELSE [err |-> "", params |-> p3]

\* subscribe_helpers.py: SubscribeAPI._param_handler
Subscribe_param_handler(op, sess_params, kwargs) ==
    [err |-> "", params |-> sess_params]

\* if kwargs["param_handler"] is not None: kwargs["param_handler"](...)
CallParamHandler(h, op, sess_params, kwargs) ==
    CASE h = SearchHandlers -> Search_param_handler(op, sess_params, kwargs)
      [] h = SubscribeHandlers -> Subscribe_param_handler(op, sess_params, kwargs)
      [] OTHER -> [err |-> "", params |-> sess_params]

(***************************************************************************)
(* remote_sess.py: LibIOSessionBase.  A session object is the record       *)
(* [key |-> _api_key, params |-> _sess.params].  An operation that can     *)
(* raise returns a record whose err field names the exception ("" when     *)
(* nothing was raised).                                                    *)
(***************************************************************************)
\* get_key without the test of the key.
get_key_unchecked(api_key) == [err |-> "", key |-> api_key]

\* get_key: raises APIKeyMissingError when the key is None or empty.
get_key(api_key) ==
    IF api_key = NoneVal \/ api_key = ""
    THEN [err |-> "APIKeyMissingError", key |-> api_key]
    ELSE [err |-> "", key |-> api_key]

\* set_key
set_key(s, key) == [s EXCEPT !.key = key]

\* _create_session: a new requests.Session (no parameters), then
\* self.set_key(self.get_key()).
create_session(s) ==
    [err |-> get_key(s.key).err, sess |-> [s EXCEPT !.params = EmptyMap]]

\* __init__: the key is the argument, or the environment variable
\* LIBRARIES_API_KEY (None when unset) when the argument is empty.
SessionInit(api_key, env) ==
    create_session([key |-> IF api_key = "" THEN env ELSE api_key,
                    params |-> EmptyMap])

\* StorePages without the upper limit of per_page.
StorePagesNoUpperLimit(params, pg, pp) ==
    [params |-> Put(Put(params, "page", Max(pg, 1)), "per_page", Max(pp, 1)),
     valid_values_range |-> (Max(pg, 1) = pg /\ Max(pp, 1) = pp)]

\* StorePages with a result that compares the page alone.
StorePagesPageOnlyResult(params, pg, pp) ==
    [params |-> Put(Put(params, "page", Max(pg, 1)),
                    "per_page", Min(Max(pp, 1), PER_PAGE_MAX)),
     valid_values_range |-> (Max(pg, 1) = pg)]

\* fix_pages, the two assignments and the result: pg and pp are the page and
\* per_page after the defaults were applied.
StorePages(params, pg, pp) ==
    [params |-> Put(Put(params, "page", Max(pg, 1)),
                    "per_page", Min(Max(pp, 1), PER_PAGE_MAX)),
     valid_values_range |-> (Max(pg, 1) = pg /\ Min(Max(pp, 1), PER_PAGE_MAX) = pp)]

\* fix_pages: page and per_page are <<>> (None) or <<n>>; None stands for
\* the value in the session parameters, or the default when there is none.
fix_pages(params, page, per_page) ==
    StorePages(params,
               IF page # <<>> THEN page[1]
               ELSE IF Has(params, "page") THEN params["page"] ELSE QB_DEFAULT_PAGE,
               IF per_page # <<>> THEN per_page[1]
               ELSE IF Has(params, "per_page") THEN params["per_page"]
               ELSE QB_DEFAULT_PER_PAGE)

\* get_session, first statement: recreate the session, or attach the key.
AcquireSession(s, force_recreate) ==
    IF force_recreate THEN create_session(s)
    ELSE IF get_key(s.key).err # "" THEN [err |-> get_key(s.key).err, sess |-> s]
    ELSE [err |-> "", sess |-> [s EXCEPT !.params = Put(@, "api_key", s.key)]]

\* get_session, the prerelease flag and the pagination of a GET
SessionParams(params, req_type, page, items_per_page, include_prerelease) ==
    IF req_type = GET
    THEN fix_pages(IF include_prerelease THEN Put(params, "include_prerelease", TRUE)
                   ELSE params,
                   page, items_per_page).params
    ELSE IF include_prerelease THEN Put(params, "include_prerelease", TRUE)
    ELSE params

ConfigureSession(r, req_type, page, items_per_page, include_prerelease) ==
    IF r.err # "" THEN r
    ELSE [err |-> "",
          sess |-> [r.sess EXCEPT !.params =
                      SessionParams(@, req_type, page, items_per_page, include_prerelease)]]

\* get_session
get_session(s, req_type, page, items_per_page, force_recreate, include_prerelease) ==
    ConfigureSession(AcquireSession(s, force_recreate),
                     req_type, page, items_per_page, include_prerelease)

\* clear_session_params (a requests.Session is always true, so
\* _has_valid_session never raises).
clear_session_params(s) == [s EXCEPT !.params = EmptyMap]

(***************************************************************************)
(* The transport (requests.Session.get/post/put/delete) and the response.  *)
(* A transport outcome is an exception raised by the call (exc) or a       *)
(* response with a status code and a body text.                            *)
(***************************************************************************)
Value(type, len) == [type |-> type, len |-> len, synth |-> FALSE]

EmptyDict == Value("dict", 0)

NoValue == Value("none", 0)

\* The payload returned for a successful DELETE.
DeleteStatusPayload == [type |-> "dict", len |-> 1, synth |-> TRUE]

\* resp.json()
json(text) ==
    CASE text = "[]" -> [err |-> "", val |-> Value("list", 0)]
      [] text = "{}" -> [err |-> "", val |-> Value("dict", 0)]
      [] text = "[1]" -> [err |-> "", val |-> Value("list", 1)]
      [] text = "{a:1}" -> [err |-> "", val |-> Value("dict", 1)]
      [] OTHER -> [err |-> "JSONDecodeError", val |-> NoValue]

\* resp.raise_for_status()
raise_for_status(status) == IF status >= 400 /\ status < 600 THEN "HTTPError" ELSE ""

\* bool(value) of a decoded body
Truthy(val) == val.len > 0

NoRequest == [verb |-> "", uri |-> <<>>, params |-> EmptyMap, key |-> NoneVal]

(***************************************************************************)
(* remote_sess.py: LibIOSessionBase.request_factory.                       *)
(* s is the session, nargs the number of positional arguments, resp the    *)
(* outcome of the transport call should it be made.  The result tells      *)
(* what was raised (err), the value returned (val), the session afterwards *)
(* (sess), the number of HTTP calls made (calls) and the request sent.     *)
(***************************************************************************)
KwGet(kwargs, k, default) == IF Has(kwargs, k) THEN kwargs[k] ELSE default

KwOpt(kwargs, k) == IF Has(kwargs, k) THEN <<kwargs[k]>> ELSE <<>>

Outcome(e, v, s, calls, req) ==
    [err |-> e, val |-> v, sess |-> s, calls |-> calls, req |-> req]

Raised(e, s) == Outcome(e, NoValue, s, 0, NoRequest)

\* HandleResponse with the DELETE test left out of the 204 workaround.
HandleResponseAnyVerb(s, req, req_type, resp) ==
    IF raise_for_status(resp.status) # ""
    THEN Outcome(raise_for_status(resp.status), NoValue, s, 1, req)
    ELSE IF resp.status = 204 /\ resp.text = ""
    THEN Outcome("", DeleteStatusPayload, s, 1, req)
    ELSE Outcome(json(resp.text).err, json(resp.text).val, s, 1, req)

\* from resp.raise_for_status() to the return statements
HandleResponse(s, req, req_type, resp) ==
    IF raise_for_status(resp.status) # ""
    THEN Outcome(raise_for_status(resp.status), NoValue, s, 1, req)
    ELSE IF req_type = DELETE /\ resp.status = 204 /\ resp.text = ""
    THEN Outcome("", DeleteStatusPayload, s, 1, req)
    ELSE Outcome(json(resp.text).err, json(resp.text).val, s, 1, req)

\* Dispatch making the HTTP call again after a transport error.
DispatchAgainOnError(s, req, req_type, resp) ==
    IF resp.exc # "" THEN Outcome(resp.exc, NoValue, s, 2, req)
    ELSE HandleResponse(s, req, req_type, resp)

\* getattr(sess, req_type.value)(uri): the one HTTP call
Dispatch(s, req, req_type, resp) ==
    IF resp.exc # "" THEN Outcome(resp.exc, NoValue, s, 1, req)
    ELSE HandleResponse(s, req, req_type, resp)

\* the param_handler call; par is its result
ApplyParams(s, par, req_type, uri, resp) ==
    IF par.err # "" THEN Raised(par.err, [s EXCEPT !.params = par.params])
    ELSE Dispatch([s EXCEPT !.params = par.params],
                  [verb |-> req_type, uri |-> uri, params |-> par.params, key |-> s.key],
                  req_type, resp)

\* the get_session call; got is its result
WithSession(got, op, req_type, kwargs, uri, resp) ==
    IF got.err # "" THEN Raised(got.err, got.sess)
    ELSE ApplyParams(got.sess,
                     CallParamHandler(KwGet(kwargs, "param_handler", NoHandler),
                                      op, got.sess.params, kwargs),
                     req_type, uri, resp)

\* the uri_handler call; uri is its result
WithUri(s, uri, op, req_type, kwargs, resp) ==
    IF uri.err # "" THEN Raised(uri.err, s)
    ELSE WithSession(get_session(s, req_type, KwOpt(kwargs, "page"),
                                 KwOpt(kwargs, "items_per_page"), FALSE, req_type = POST),
                     op, req_type, kwargs, uri.uri, resp)

request_factory(s, op, req_type, nargs, kwargs, resp) ==
    IF req_type \notin HttpOperation THEN Raised("InvalidHTTPOperationSupplied", s)
    ELSE WithUri(s, CallUriHandler(KwGet(kwargs, "uri_handler", NoHandler), op, nargs, kwargs),
                 op, req_type, kwargs, resp)

(***************************************************************************)
(* remote_sess.py: LibIOSession.make_request.  HTTPError, RetryError and   *)
(* every other Exception are logged and {} is returned; the log call of    *)
(* the last handler reads req_type.value, which raises AttributeError when *)
(* req_type has no such attribute.  The finally clause clears the session  *)
(* parameters on every path.  caught is what request_factory raised.       *)
(***************************************************************************)
Returned(e, v, s, r) ==
    [err |-> e, val |-> v, sess |-> s, calls |-> r.calls, req |-> r.req, caught |-> r.err]

\* HandleErrors with the parameters cleared after the try block instead of
\* in a finally clause: an exception leaves them as they are.
HandleErrorsNoFinally(r, req_type) ==
    IF r.err = "" THEN Returned("", r.val, clear_session_params(r.sess), r)
    ELSE IF r.err \in {"HTTPError", "RetryError"} THEN Returned("", EmptyDict, r.sess, r)
    ELSE IF ~HasValueAttr(req_type) THEN Returned("AttributeError", NoValue, r.sess, r)
    ELSE Returned("", EmptyDict, r.sess, r)

\* HandleErrors without the except clause for RetryError and with the last
\* clause narrowed, so that a retry error reaches the caller.
HandleErrorsRetryEscapes(r, req_type) ==
    IF r.err = "" THEN Returned("", r.val, clear_session_params(r.sess), r)
    ELSE IF r.err = "RetryError"
    THEN Returned("RetryError", NoValue, clear_session_params(r.sess), r)
    ELSE IF r.err = "HTTPError" THEN Returned("", EmptyDict, clear_session_params(r.sess), r)
    ELSE IF ~HasValueAttr(req_type)
    THEN Returned("AttributeError", NoValue, clear_session_params(r.sess), r)
    ELSE Returned("", EmptyDict, clear_session_params(r.sess), r)

\* the except clauses and the finally clause; r is request_factory's outcome
HandleErrors(r, req_type) ==
    IF r.err = "" THEN Returned("", r.val, clear_session_params(r.sess), r)
    ELSE IF r.err \in {"HTTPError", "RetryError"}
    THEN Returned("", EmptyDict, clear_session_params(r.sess), r)
    ELSE IF ~HasValueAttr(req_type)
    THEN Returned("AttributeError", NoValue, clear_session_params(r.sess), r)
    ELSE Returned("", EmptyDict, clear_session_params(r.sess), r)

make_request(s, op, req_type, nargs, kwargs, resp) ==
    HandleErrors(request_factory(s, op, req_type, nargs, kwargs, resp), req_type)

\* dict(a, **b), and the handlers of one API as keyword arguments
Merge(a, b) == [k \in (DOMAIN a) \cup (DOMAIN b) |-> IF k \in DOMAIN b THEN b[k] ELSE a[k]]

Handlers(h) == [uri_handler |-> h, param_handler |-> h]

(***************************************************************************)
(* remote_sess.py: LibIOIterableRequest.                                   *)
(***************************************************************************)
NoIterator ==
    [state |-> "none", op |-> "", req_type |-> "", nargs |-> 0, kwargs |-> EmptyMap,
     from_page |-> 0, current_page |-> 0, sess |-> [key |-> NoneVal, params |-> EmptyMap]]

NoNewIterator(e) == [err |-> e, it |-> NoIterator]

\* __init__, from the creation of the session on; got is what
\* self.sess.get_session(req_type) made of the new LibIOSessionBase.
IterWithSession(got, op, req_type, nargs, kw) ==
    IF got.err # "" THEN NoNewIterator(got.err)
    ELSE [err |-> "",
          it |-> [state |-> "live", op |-> op, req_type |-> req_type, nargs |-> nargs,
                  kwargs |-> kw, from_page |-> kw["from_page"],
                  current_page |-> kw["from_page"], sess |-> got.sess]]

\* LibIOSessionBase(api_key) followed by get_session(req_type).  With an
\* api_key that is not empty the constructor never reads the environment.
IterSession(api_key, req_type) ==
    IF SessionInit(api_key, NoneVal).err # ""
    THEN SessionInit(api_key, NoneVal)
    ELSE get_session(SessionInit(api_key, NoneVal).sess, req_type, <<>>, <<>>, FALSE, FALSE)

\* IterInitDefaults without the test of the verb.
IterInitDefaultsAnyVerb(op, req_type, nargs, kw) ==
    IF kw["sess"] = "None" /\ kw["api_key"] = "" THEN NoNewIterator("ValueError")
    ELSE IF kw["sess"] # "None" THEN NoNewIterator("AttributeError")
    ELSE IterWithSession(IterSession(kw["api_key"], req_type), op, req_type, nargs, kw)

\* __init__ after the setdefault calls.  kwargs["sess"], when given, refers
\* to an existing session; the branch taken then reads self.sess, an
\* attribute that was never assigned.
IterInitDefaults(op, req_type, nargs, kw) ==
    IF req_type # GET THEN NoNewIterator("ValueError")
    ELSE IF kw["sess"] = "None" /\ kw["api_key"] = "" THEN NoNewIterator("ValueError")
    ELSE IF kw["sess"] # "None" THEN NoNewIterator("AttributeError")
    ELSE IterWithSession(IterSession(kw["api_key"], req_type), op, req_type, nargs, kw)

\* __init__
iter_init(op, req_type, nargs, kwargs) ==
    IterInitDefaults(op, req_type, nargs,
                     Merge([api_key |-> "", sess |-> "None", from_page |-> QB_DEFAULT_PAGE],
                           kwargs))

Stepped(e, v, i, r) ==
    [err |-> e, val |-> v, it |-> i, calls |-> r.calls, req |-> r.req, caught |-> r.err]

\* HandlePage without the test for an empty page: every decoded body is
\* yielded and moves the cursor.
HandlePageYieldsEmpty(i, r) ==
    IF r.err = ""
    THEN Stepped("", r.val, [i EXCEPT !.current_page = @ + 1, !.sess = r.sess], r)
    ELSE IF r.err = "TypeError"
    THEN Stepped("TypeError", NoValue, [i EXCEPT !.sess = r.sess], r)
    ELSE Stepped("StopIteration", NoValue, [i EXCEPT !.sess = r.sess], r)

\* HandlePage without the last except clause: an exception that is neither
\* an HTTP error nor a TypeError leaves __next__ as it is.
HandlePageOthersEscape(i, r) ==
    IF r.err = "" /\ Truthy(r.val)
    THEN Stepped("", r.val, [i EXCEPT !.current_page = @ + 1, !.sess = r.sess], r)
    ELSE IF r.err \in {"", "HTTPError"}
    THEN Stepped("StopIteration", NoValue, [i EXCEPT !.sess = r.sess], r)
    ELSE Stepped(r.err, NoValue, [i EXCEPT !.sess = r.sess], r)

\* HandlePage with the cursor moved before the test for an empty page.
HandlePageCountsEmpty(i, r) ==
    IF r.err = ""
    THEN Stepped(IF Truthy(r.val) THEN "" ELSE "StopIteration",
                 IF Truthy(r.val) THEN r.val ELSE NoValue,
                 [i EXCEPT !.current_page = @ + 1, !.sess = r.sess], r)
    ELSE IF r.err = "TypeError"
    THEN Stepped("TypeError", NoValue, [i EXCEPT !.sess = r.sess], r)
    ELSE Stepped("StopIteration", NoValue, [i EXCEPT !.sess = r.sess], r)

\* __next__ around the request: an empty page and every exception but
\* TypeError end in StopIteration; TypeError is raised again; a page that is
\* not empty moves the cursor.  i is the iterator with the request's
\* effects, r the outcome of request_factory.
HandlePage(i, r) ==
    IF r.err = "" /\ Truthy(r.val)
    THEN Stepped("", r.val, [i EXCEPT !.current_page = @ + 1, !.sess = r.sess], r)
    ELSE IF r.err = "TypeError"
    THEN Stepped("TypeError", NoValue, [i EXCEPT !.sess = r.sess], r)
    ELSE Stepped("StopIteration", NoValue, [i EXCEPT !.sess = r.sess], r)

\* _make_paginated_request; i is the iterator with kwargs["page"] set
make_paginated_request(i, resp) ==
    request_factory(i.sess, i.op, i.req_type, i.nargs, i.kwargs, resp)

PageSet(i) == [i EXCEPT !.kwargs = Put(@, "page", i.current_page)]

\* __next__
iter_next(i, resp) == HandlePage(PageSet(i), make_paginated_request(PageSet(i), resp))

(***************************************************************************)
(* search_helpers.py, subscribe_helpers.py: call and call_iterated.        *)
(* is_session tells whether the session handed in is a LibIOSession.       *)
(***************************************************************************)
SearchAPI_call_iterated(op, is_session, s, kwargs) ==
    IF ~is_session THEN NoNewIterator("InvalidSessionClassSupplied")
    ELSE IF get_key(s.key).err # "" THEN NoNewIterator(get_key(s.key).err)
    ELSE iter_init(op, GET, 0,
                   Merge(kwargs, Merge(Handlers(SearchHandlers), [api_key |-> s.key])))

SubscribeAPI_call_iterated(op, is_session, s, req_type, nargs, kwargs) ==
    IF ~is_session THEN NoNewIterator("InvalidSessionClassSupplied")
    ELSE IF req_type # GET THEN NoNewIterator("InvalidHTTPOperationSupplied")
    ELSE IF get_key(s.key).err # "" THEN NoNewIterator(get_key(s.key).err)
    ELSE iter_init(op, req_type, nargs,
                   Merge(kwargs, Merge(Handlers(SubscribeHandlers), [api_key |-> s.key])))

\* What SearchAPI.call / SubscribeAPI.call raise themselves
RaisedByCall(e, s) ==
    [err |-> e, val |-> NoValue, sess |-> s, calls |-> 0, req |-> NoRequest, caught |-> ""]

\* SearchAPI_call without the test of the session's class.
SearchAPI_call_AnySession(op, is_session, s, kwargs, resp) ==
    make_request(s, op, GET, 0, Merge(kwargs, Handlers(SearchHandlers)), resp)

\* SearchAPI.call
SearchAPI_call(op, is_session, s, kwargs, resp) ==
    IF ~is_session THEN RaisedByCall("InvalidSessionClassSupplied", s)
    ELSE make_request(s, op, GET, 0, Merge(kwargs, Handlers(SearchHandlers)), resp)

\* SubscribeAPI.call
SubscribeAPI_call(op, is_session, s, req_type, nargs, kwargs, resp) ==
    IF ~is_session THEN RaisedByCall("InvalidSessionClassSupplied", s)
    ELSE make_request(s, op, req_type, nargs, Merge(kwargs, Handlers(SubscribeHandlers)), resp)

(***************************************************************************)
(* The inputs of the operations.                                           *)
(***************************************************************************)
\* API keys given as an argument, and the LIBRARIES_API_KEY variable.
KeyArgs == {"", "k1"}

EnvKeys == {NoneVal, "", "k2"}

VerbInputs == HttpOperation \cup {BadVerbStr, BadVerbEnum}

ProjectArgs == [platform |-> Str(<<"npm">>), project |-> Str(<<"a", "/", "b">>)]

SearchArgs == [query |-> Str(<<"a", " ", "b">>), sort |-> <<<<"stars">>>>,
               filters |-> <<[keywords |-> {<<"x", "&", "y">>}]>>]

Call(op, nargs, kwargs) == [op |-> op, nargs |-> nargs, kwargs |-> kwargs]

\* Calls through the Search and Subscribe handlers and without handlers:
\* complete, with a required argument missing, with a positional argument.
Calls ==
    { Call("platforms", 0, Handlers(SearchHandlers)),
      Call("platforms", 1, Handlers(SearchHandlers)),
      Call("platforms", 0, EmptyMap),
      Call("project", 0, Handlers(SearchHandlers)),
      Call("project", 0, Merge(Handlers(SearchHandlers),
                               Merge(ProjectArgs, [page |-> 2, items_per_page |-> 200]))),
      Call("project-search", 0, Merge(Handlers(SearchHandlers),
                                      Merge(SearchArgs, [page |-> 0]))),
      Call("project-search", 0, Merge(Handlers(SearchHandlers), [filters |-> <<>>])),
      Call("user-subscriptions", 0, Handlers(SubscribeHandlers)),
      Call("unsubscribe-user-from-project", 0, Handlers(SubscribeHandlers)),
      Call("unsubscribe-user-from-project", 0, Merge(Handlers(SubscribeHandlers), ProjectArgs)),
      Call("unsubscribe-user-from-project", 1, Merge(Handlers(SubscribeHandlers), ProjectArgs)) }

\* Outcomes of the transport call.
Response(status, text) == [exc |-> "", status |-> status, text |-> text]

TransportError(e) == [exc |-> e, status |-> 0, text |-> ""]

NoResponse == Response(0, "")

Responses ==
    { Response(200, "[1]"), Response(200, "{a:1}"), Response(200, "[]"),
      Response(200, ""), Response(204, ""), Response(204, "{a:1}"),
      Response(404, "{a:1}"),
      TransportError("RetryError"), TransportError("ConnectionError") }

\* Steps of one iterator.
MaxSteps == 3

FromPages == {-1, 0, 1, 2}

\* Direct constructions of an iterator: with an API key and a first page,
\* without a key, with an existing session, without handlers, with a
\* required argument missing and with a positional argument.
IterCalls ==
    { Call("platforms", 0, Merge(Handlers(SearchHandlers), [api_key |-> "k1", from_page |-> n]))
        : n \in FromPages }
    \cup
    { Call("platforms", 0, Merge(Handlers(SearchHandlers), [api_key |-> "k1"])),
      Call("platforms", 0, Handlers(SearchHandlers)),
      Call("platforms", 0, Merge(Handlers(SearchHandlers), [sess |-> "session"])),
      Call("platforms", 0, Merge(Handlers(SearchHandlers), [sess |-> "session", api_key |-> "k1"])),
      Call("platforms", 0, [api_key |-> "k1"]),
      Call("project", 0, Merge(Handlers(SearchHandlers), [api_key |-> "k1"])),
      Call("platforms", 1, Merge(Handlers(SearchHandlers), [api_key |-> "k1"])) }

\* Iterators asked of a facade: Search.platforms(page, per_page, iterated=True)
\* and the like pass page= and per_page=.
FacadeIterCalls ==
    { Call("platforms", 0, [page |-> 1, per_page |-> 30]),
      Call("user-subscriptions", 0, [page |-> 3, per_page |-> 50]),
      Call("user-subscriptions", 1, [page |-> 1, per_page |-> 30]) }

IterResponses ==
    { Response(200, "[1]"), Response(200, "{a:1}"), Response(200, "[]"), Response(200, "{}"),
      Response(200, ""), Response(404, "{a:1}"), TransportError("RetryError") }

(***************************************************************************)
(* The state.                                                              *)
(*   built  a Search/Subscribe facade (and its LibIOSession) exists        *)
(*   sess   the facade's LibIOSession                                      *)
(*   it     the paginating iterator, if one exists                         *)
(*   hist   what the steps of the iterator did, oldest first               *)
(*   last   the last operation: its inputs and what its caller observed    *)
(*   threads  the single-shot call each thread is in the middle of         *)
(***************************************************************************)
VARIABLES built, sess, it, hist, last, threads

vars == <<built, sess, it, hist, last, threads>>

NoSession == [key |-> NoneVal, params |-> EmptyMap]

\* The threads that share one facade, and a thread that is in no call.
Threads == {1, 2}

NoMethod == [name |-> "", op |-> "", req_type |-> "", kwargs |-> EmptyMap]

NotCalling ==
    [pc |-> "idle", m |-> NoMethod, uri |-> <<>>, resp |-> NoResponse,
     out |-> Outcome("", NoValue, NoSession, 0, NoRequest)]

\* What an operation leaves for its caller: the exception raised (err) or the
\* value returned (val), the exception request handling caught (caught), the
\* number of HTTP calls made (calls), the request sent (req) and the response
\* received, if the HTTP call was made.
Observed(name, req_type, kwargs, resp, r) ==
    [name |-> name, req_type |-> req_type, kwargs |-> kwargs,
     resp |-> IF r.calls > 0 THEN resp ELSE NoResponse,
     err |-> r.err, val |-> r.val, caught |-> r.caught, calls |-> r.calls, req |-> r.req]

Quiet(name, req_type, kwargs, err) ==
    [name |-> name, req_type |-> req_type, kwargs |-> kwargs, resp |-> NoResponse,
     err |-> err, val |-> NoValue, caught |-> "", calls |-> 0, req |-> NoRequest]

Init ==
    /\ built = FALSE
    /\ sess = NoSession
    /\ it = NoIterator
    /\ hist = <<>>
    /\ last = Quiet("", "", EmptyMap, "")
    /\ threads = [t \in Threads |-> NotCalling]

\* Search(api_key) / Subscribe(api_key): self.session = LibIOSession(api_key)
Constructed(r, api_key, env) ==
    /\ built' = (r.err = "")
    /\ sess' = IF r.err = "" THEN r.sess ELSE NoSession
    /\ last' = Quiet("init", "", [api_key |-> api_key, env |-> env], r.err)

Construct(api_key, env) ==
    /\ ~built
    /\ Constructed(SessionInit(api_key, env), api_key, env)
    /\ UNCHANGED <<it, hist, threads>>

\* session.set_key(key)
SetKey(key) ==
    /\ built
    /\ sess' = set_key(sess, key)
    /\ last' = Quiet("set_key", "", [key |-> key], "")
    /\ UNCHANGED <<built, it, hist, threads>>

\* session.make_request(op, req_type, *args, **kwargs)
Requested(r, op, req_type, nargs, kwargs, resp) ==
    /\ sess' = r.sess
    /\ last' = Observed("make_request", req_type, kwargs, resp, r)
                  @@ [op |-> op, nargs |-> nargs]

MakeRequest(op, req_type, nargs, kwargs, resp) ==
    /\ built
    /\ Requested(make_request(sess, op, req_type, nargs, kwargs, resp),
                 op, req_type, nargs, kwargs, resp)
    /\ UNCHANGED <<built, it, hist, threads>>

Next ==
    \/ \E a \in KeyArgs, e \in EnvKeys : Construct(a, e)
    \/ \E k \in KeyArgs \cup {NoneVal} : SetKey(k)
    \/ \E c \in Calls, v \in VerbInputs, r \in Responses :
          MakeRequest(c.op, v, c.nargs, c.kwargs, r)

Spec == Init /\ [][Next]_vars

\* The outcome of a construction of an iterator.
Iterated(r, name, req_type, kwargs) ==
    /\ it' = r.it
    /\ last' = Quiet(name, req_type, kwargs, r.err)

\* LibIOIterableRequest(op, req_type, *args, **kwargs)
NewIterator(op, req_type, nargs, kwargs) ==
    /\ it.state = "none"
    /\ Iterated(iter_init(op, req_type, nargs, kwargs), "LibIOIterableRequest", req_type, kwargs)
    /\ UNCHANGED <<built, sess, hist, threads>>

\* The inputs of a call_iterated: its keyword arguments and the class of the
\* session handed in.
WithSessionClass(kwargs, is_session) ==
    Merge(kwargs, [session_class |-> IF is_session THEN "LibIOSession" ELSE "LibIOSessionBase"])

\* SearchAPI.call_iterated(op, sess, **kwargs)
SearchCallIterated(op, is_session, kwargs) ==
    /\ built
    /\ it.state = "none"
    /\ Iterated(SearchAPI_call_iterated(op, is_session, sess, kwargs),
                "SearchAPI.call_iterated", GET, WithSessionClass(kwargs, is_session))
    /\ UNCHANGED <<built, sess, hist, threads>>

\* SubscribeAPI.call_iterated(op, sess, req_type, *args, **kwargs)
SubscribeCallIterated(op, is_session, req_type, nargs, kwargs) ==
    /\ built
    /\ it.state = "none"
    /\ Iterated(SubscribeAPI_call_iterated(op, is_session, sess, req_type, nargs, kwargs),
                "SubscribeAPI.call_iterated", req_type, WithSessionClass(kwargs, is_session))
    /\ UNCHANGED <<built, sess, hist, threads>>

\* next(iterator).  A step is recorded with the cursor before and after it,
\* the page number the request carried (0 when no request was made), the
\* response received and how it ended: a page, StopIteration or TypeError.
Step(i, r, resp) ==
    [cursor |-> i.current_page, after |-> r.it.current_page,
     page |-> IF r.calls > 0 /\ Has(r.req.params, "page") THEN r.req.params["page"] ELSE 0,
     calls |-> r.calls, resp |-> IF r.calls > 0 THEN resp ELSE NoResponse,
     caught |-> r.caught, out |-> IF r.err = "" THEN "page" ELSE r.err]

Advanced(r, resp) ==
    /\ it' = r.it
    /\ hist' = Append(hist, Step(it, r, resp))
    /\ last' = Observed("__next__", it.req_type, it.kwargs, resp, r)

\* IterNext of an iterator that sends its requests through the session of
\* the facade instead of a session of its own.
IterNextThroughFacadeSession(resp) ==
    /\ it.state = "live"
    /\ Len(hist) < MaxSteps
    /\ Advanced(iter_next([it EXCEPT !.sess = sess], resp), resp)
    /\ sess' = iter_next([it EXCEPT !.sess = sess], resp).it.sess
    /\ UNCHANGED <<built, threads>>

IterNext(resp) ==
    /\ it.state = "live"
    /\ Len(hist) < MaxSteps
    /\ Advanced(iter_next(it, resp), resp)
    /\ UNCHANGED <<built, sess, threads>>

NextIter ==
    \/ \E a \in KeyArgs, e \in EnvKeys : Construct(a, e)
    \/ \E k \in KeyArgs \cup {NoneVal} : SetKey(k)
    \/ \E c \in IterCalls, v \in VerbInputs : NewIterator(c.op, v, c.nargs, c.kwargs)
    \/ \E c \in FacadeIterCalls, b \in BOOLEAN : SearchCallIterated(c.op, b, c.kwargs)
    \/ \E c \in FacadeIterCalls, b \in BOOLEAN, v \in VerbInputs :
          SubscribeCallIterated(c.op, b, v, c.nargs, c.kwargs)
    \/ \E r \in IterResponses : IterNext(r)

SpecIter == Init /\ [][NextIter]_vars

\* iterator.sess.set_key(key): the key of the session the iterator holds
IterSetKey(key) ==
    /\ it.state = "live"
    /\ it' = [it EXCEPT !.sess = set_key(@, key)]
    /\ last' = Quiet("iterator.set_key", "", [key |-> key], "")
    /\ UNCHANGED <<built, sess, hist, threads>>

\* Single-shot calls and iterators side by side, each session's key being
\* replaced at will: complete calls and a call with its arguments missing.
MixedCalls ==
    { Call("platforms", 0, Handlers(SearchHandlers)),
      Call("project", 0, Handlers(SearchHandlers)) }

MixedVerbs == {GET, POST}

MixedResponses ==
    { Response(200, "[1]"), Response(404, "{a:1}"), TransportError("RetryError") }

NextMixed ==
    \/ \E a \in KeyArgs, e \in EnvKeys : Construct(a, e)
    \/ \E k \in KeyArgs \cup {NoneVal} : SetKey(k)
    \/ \E c \in MixedCalls, v \in MixedVerbs, r \in MixedResponses :
          MakeRequest(c.op, v, c.nargs, c.kwargs, r)
    \/ \E c \in MixedCalls : NewIterator(c.op, GET, c.nargs, Merge(c.kwargs, [api_key |-> "k1"]))
    \/ \E k \in KeyArgs : IterSetKey(k)
    \/ \E r \in MixedResponses : IterNext(r)

SpecMixed == Init /\ [][NextMixed]_vars

\* The outcome of a call through SearchAPI / SubscribeAPI or a facade.
Called(r, name, req_type, kwargs, resp) ==
    /\ sess' = r.sess
    /\ last' = Observed(name, req_type, kwargs, resp, r)

\* SearchAPI.call(op, sess, **kwargs)
SearchCall(op, is_session, kwargs, resp) ==
    /\ built
    /\ Called(SearchAPI_call(op, is_session, sess, kwargs, resp),
              "SearchAPI.call", GET, WithSessionClass(kwargs, is_session), resp)
    /\ UNCHANGED <<built, it, hist, threads>>

\* SubscribeAPI.call(op, sess, req_type, *args, **kwargs)
SubscribeCall(op, is_session, req_type, nargs, kwargs, resp) ==
    /\ built
    /\ Called(SubscribeAPI_call(op, is_session, sess, req_type, nargs, kwargs, resp),
              "SubscribeAPI.call", req_type, WithSessionClass(kwargs, is_session), resp)
    /\ UNCHANGED <<built, it, hist, threads>>

\* Calls as the facades make them: without handlers, with page= and
\* per_page= or with the arguments of the operation, and with the arguments
\* missing.
FacadeCalls ==
    { Call("platforms", 0, [page |-> 2, per_page |-> 50]),
      Call("project", 0, ProjectArgs),
      Call("project", 0, EmptyMap),
      Call("user-subscriptions", 0, [page |-> 1, per_page |-> 30]),
      Call("unsubscribe-user-from-project", 0, ProjectArgs),
      Call("unsubscribe-user-from-project", 1, ProjectArgs) }

FacadeVerbs == {GET, DELETE}

FacadeResponses == { Response(200, "[1]"), Response(200, "[]"), Response(404, "{a:1}") }

(***************************************************************************)
(* search.py, subscribe.py: the facades.  A method of a facade is the call *)
(* it makes: the operation, the verb and the keyword arguments it hands to *)
(* SearchAPI / SubscribeAPI (call, or call_iterated when iterated=True).   *)
(* An argument that may be None is <<>> for None and <<v>> otherwise.      *)
(***************************************************************************)
Method(name, op, req_type, kwargs) ==
    [name |-> name, op |-> op, req_type |-> req_type, kwargs |-> kwargs]

Search_platforms(page, per_page) ==
    Method("Search.platforms", "platforms", GET, [page |-> page, per_page |-> per_page])

Search_user_repositories(host, user, page, per_page) ==
    Method("Search.user_repositories", "user-repositories", GET,
           [host |-> host, user |-> user, page |-> page, per_page |-> per_page])

Search_user_dependencies(host, user, platform, page, per_page) ==
    Method("Search.user_dependencies", "user-dependencies", GET,
           [host |-> host, user |-> user, platform |-> platform,
            page |-> page, per_page |-> per_page])

Search_project_search(query, filters, sort, page, per_page) ==
    Method("Search.project_search", "project-search", GET,
           [query |-> query, filters |-> filters, sort |-> sort,
            page |-> page, per_page |-> per_page])

Subscribe_user_subscriptions(page, per_page) ==
    Method("Subscribe.user_subscriptions", "user-subscriptions", GET,
           [page |-> page, per_page |-> per_page])

Subscribe_subscribe(platform, project, include_prerelease) ==
    Method("Subscribe.subscribe", "subscribe-user-to-project", POST,
           [platform |-> platform, project |-> project,
            include_prerelease |-> include_prerelease])

Subscribe_update_subscription(platform, project, include_prerelease) ==
    Method("Subscribe.update_subscription", "update-subscription-to-project", PUT,
           [platform |-> platform, project |-> project,
            include_prerelease |-> include_prerelease])

Subscribe_unsubscribe(platform, project) ==
    Method("Subscribe.unsubscribe", "unsubscribe-user-from-project", DELETE,
           [platform |-> platform, project |-> project])

\* The inputs of a facade method as its caller gave them.
WithIterated(kwargs, iterated) == Merge(kwargs, [iterated |-> iterated])

\* Search.<method>(..., iterated): self._call(iterated)(op, self.session, ...)
SearchFacade(m, iterated, resp) ==
    /\ built
    /\ IF iterated
       THEN /\ it.state = "none"
            /\ Iterated(SearchAPI_call_iterated(m.op, TRUE, sess, m.kwargs),
                        m.name, m.req_type, WithIterated(m.kwargs, TRUE))
            /\ UNCHANGED <<built, sess, hist, threads>>
       ELSE /\ Called(SearchAPI_call(m.op, TRUE, sess, m.kwargs, resp),
                      m.name, m.req_type, WithIterated(m.kwargs, FALSE), resp)
            /\ UNCHANGED <<built, it, hist, threads>>

\* Subscribe.<method>(..., iterated)
SubscribeFacade(m, iterated, resp) ==
    /\ built
    /\ IF iterated
       THEN /\ it.state = "none"
            /\ Iterated(SubscribeAPI_call_iterated(m.op, TRUE, sess, m.req_type, 0, m.kwargs),
                        m.name, m.req_type, WithIterated(m.kwargs, TRUE))
            /\ UNCHANGED <<built, sess, hist, threads>>
       ELSE /\ Called(SubscribeAPI_call(m.op, TRUE, sess, m.req_type, 0, m.kwargs, resp),
                      m.name, m.req_type, WithIterated(m.kwargs, FALSE), resp)
            /\ UNCHANGED <<built, it, hist, threads>>

\* Pages and page sizes asked of the facades.
FacadePages == {0, 1, 3}

FacadePerPages == {0, 30, 50, 200}

\* Search.project_search: each of query, filters and sort given or left at
\* its default ("", None, None).
QueryInputs == {Str(<<>>), SearchArgs.query}

FiltersInputs == {<<>>, SearchArgs.filters}

SortInputs == {<<>>, SearchArgs.sort}

PaginatedSearchMethods ==
    { Search_platforms(p, n) : p \in FacadePages, n \in FacadePerPages }
    \cup { Search_user_repositories(Str(<<"github">>), Str(<<"u">>), 3, 50) }

\* Search.user_dependencies: the platform left at its default ("") or given.
PlatformInputs == {Str(<<>>), Str(<<"npm">>), Str(<<"pypi">>)}

UserDependenciesMethods ==
    { Search_user_dependencies(Str(<<"github">>), Str(<<"u">>), p,
                               QB_DEFAULT_PAGE, QB_DEFAULT_PER_PAGE) : p \in PlatformInputs }

SearchMethods ==
    PaginatedSearchMethods
    \cup UserDependenciesMethods
    \cup { Search_project_search(q, f, s, QB_DEFAULT_PAGE, QB_DEFAULT_PER_PAGE) :
             q \in QueryInputs, f \in FiltersInputs, s \in SortInputs }

PaginatedSubscribeMethods ==
    { Subscribe_user_subscriptions(p, n) : p \in {1, 3}, n \in {30, 50} }

SubscribeMethods ==
    { Subscribe_subscribe(ProjectArgs.platform, ProjectArgs.project, b) : b \in BOOLEAN }
    \cup { Subscribe_update_subscription(ProjectArgs.platform, ProjectArgs.project, b) :
             b \in BOOLEAN }
    \cup { Subscribe_unsubscribe(ProjectArgs.platform, ProjectArgs.project) }

NextFacade ==
    \/ Construct("k1", NoneVal)
    \/ \E c \in FacadeCalls, b \in BOOLEAN, r \in FacadeResponses :
          SearchCall(c.op, b, c.kwargs, r)
    \/ \E c \in FacadeCalls, b \in BOOLEAN, v \in FacadeVerbs, r \in FacadeResponses :
          SubscribeCall(c.op, b, v, c.nargs, c.kwargs, r)
    \/ \E c \in FacadeIterCalls, b \in BOOLEAN : SearchCallIterated(c.op, b, c.kwargs)
    \/ \E c \in FacadeIterCalls, b \in BOOLEAN, v \in FacadeVerbs :
          SubscribeCallIterated(c.op, b, v, c.nargs, c.kwargs)
    \/ \E m \in SearchMethods, r \in FacadeResponses : SearchFacade(m, FALSE, r)
    \/ \E m \in PaginatedSearchMethods : SearchFacade(m, TRUE, NoResponse)
    \/ \E m \in SubscribeMethods \cup PaginatedSubscribeMethods, r \in FacadeResponses :
          SubscribeFacade(m, FALSE, r)
    \/ \E m \in PaginatedSubscribeMethods : SubscribeFacade(m, TRUE, NoResponse)

SpecFacade == Init /\ [][NextFacade]_vars

\* The iterators the facades return, and their steps.
\* A single-shot call made on the facade while an iterator of it is in use.
BesideIterator == { Search_platforms(3, 50) }

NextFacadeIter ==
    \/ Construct("k1", NoneVal)
    \/ \E m \in PaginatedSearchMethods : SearchFacade(m, TRUE, NoResponse)
    \/ \E m \in PaginatedSubscribeMethods : SubscribeFacade(m, TRUE, NoResponse)
    \/ \E m \in BesideIterator, r \in MixedResponses : SearchFacade(m, FALSE, r)
    \/ \E r \in IterResponses : IterNext(r)

SpecFacadeIter == Init /\ [][NextFacadeIter]_vars

(***************************************************************************)
(* The session keeper used directly: fix_pages, request_factory (which     *)
(* leaves the parameters in the session) and clear_session_params.         *)
(***************************************************************************)
\* The inputs of an operation together with the session parameters it found.
WithPrior(kwargs, params) == Merge(kwargs, [session_params |-> params])

BoolValue(b) == Value("bool", IF b THEN 1 ELSE 0)

\* LibIOSessionBase.fix_pages(session._sess, page, per_page)
FixPages(page, per_page) ==
    /\ built
    /\ sess' = [sess EXCEPT !.params = fix_pages(@, page, per_page).params]
    /\ last' = [Quiet("fix_pages", "", WithPrior([page |-> page, per_page |-> per_page],
                                                 sess.params), "")
                  EXCEPT !.val = BoolValue(fix_pages(sess.params, page, per_page)
                                               .valid_values_range)]
    /\ UNCHANGED <<built, it, hist, threads>>

\* session.request_factory(op, req_type, *args, **kwargs); r is its outcome
Produced(r, req_type, kwargs, resp) ==
    /\ sess' = r.sess
    /\ last' = Observed("request_factory", req_type, WithPrior(kwargs, sess.params), resp,
                        [err |-> r.err, val |-> r.val, calls |-> r.calls, req |-> r.req,
                         caught |-> ""])

RequestFactory(op, req_type, nargs, kwargs, resp) ==
    /\ built
    /\ Produced(request_factory(sess, op, req_type, nargs, kwargs, resp), req_type, kwargs, resp)
    /\ UNCHANGED <<built, it, hist, threads>>

\* session.clear_session_params()
ClearSessionParams ==
    /\ built
    /\ sess' = clear_session_params(sess)
    /\ last' = Quiet("clear_session_params", "", EmptyMap, "")
    /\ UNCHANGED <<built, it, hist, threads>>

\* page and per_page as arguments of fix_pages: None or an integer.
PageArgs == {<<>>, <<-1>>, <<0>>, <<1>>, <<2>>}

PerPageArgs == {<<>>, <<-5>>, <<0>>, <<1>>, <<100>>, <<101>>}

\* Keyword arguments of a paginated request: page and items_per_page, each
\* given or not.
PageKwargs ==
    { Merge(IF p = <<>> THEN EmptyMap ELSE [page |-> p[1]],
            IF n = <<>> THEN EmptyMap ELSE [items_per_page |-> n[1]])
        : p \in PageArgs, n \in PerPageArgs }

PagesVerbs == {GET, PUT}

NextPages ==
    \/ Construct("k1", NoneVal)
    \/ \E p \in PageArgs, n \in PerPageArgs : FixPages(p, n)
    \/ \E kw \in PageKwargs, v \in PagesVerbs :
          RequestFactory("platforms", v, 0, Merge(kw, Handlers(SearchHandlers)),
                         Response(200, "[1]"))
    \/ \E kw \in PageKwargs :
          MakeRequest("platforms", GET, 0, Merge(kw, Handlers(SearchHandlers)),
                      Response(200, "[1]"))
    \/ ClearSessionParams

SpecPages == Init /\ [][NextPages]_vars

(***************************************************************************)
(* get_session called by hand, with and without force_recreate, next to    *)
(* requests that leave their parameters in the session.                    *)
(***************************************************************************)
\* session.get_session(req_type, page, items_per_page, force_recreate,
\* include_prerelease); got is what it returned or raised
GotBySession(got, req_type, kwargs) ==
    /\ sess' = got.sess
    /\ last' = Quiet("get_session", req_type, WithPrior(kwargs, sess.params), got.err)

GetSession(req_type, page, items_per_page, force_recreate, include_prerelease) ==
    /\ built
    /\ GotBySession(get_session(sess, req_type, page, items_per_page, force_recreate,
                                include_prerelease),
                    req_type,
                    [page |-> page, items_per_page |-> items_per_page,
                     force_recreate |-> force_recreate,
                     include_prerelease |-> include_prerelease])
    /\ UNCHANGED <<built, it, hist, threads>>

\* page and items_per_page as arguments of get_session: None or an integer.
SessionPageArgs == {<<>>, <<2>>}

SessionPerPageArgs == {<<>>, <<50>>}

\* Keyword arguments of a request: a page or none, force_recreate=True or
\* none.
RecreateKwargs ==
    { Merge(IF p = <<>> THEN EmptyMap ELSE [page |-> p[1]],
            IF f THEN [force_recreate |-> TRUE] ELSE EmptyMap)
        : p \in SessionPageArgs, f \in BOOLEAN }

NextSession ==
    \/ Construct("k1", NoneVal)
    \/ \E v \in PagesVerbs, p \in SessionPageArgs, n \in SessionPerPageArgs,
          f \in BOOLEAN, b \in BOOLEAN : GetSession(v, p, n, f, b)
    \/ \E kw \in RecreateKwargs, v \in PagesVerbs :
          RequestFactory("platforms", v, 0, Merge(kw, Handlers(SearchHandlers)),
                         Response(200, "[1]"))
    \/ ClearSessionParams

SpecSession == Init /\ [][NextSession]_vars

(***************************************************************************)
(* The URI handlers called on their own.                                   *)
(***************************************************************************)
UriHandlerName(h) ==
    IF h = SearchHandlers THEN "SearchAPI._uri_handler" ELSE "SubscribeAPI._uri_handler"

\* h._uri_handler(op, *args, **kwargs); r is what it returned or raised
Built(r, h, op, nargs, kwargs) ==
    last' = Quiet(UriHandlerName(h), "", kwargs, r.err)
               @@ [op |-> op, nargs |-> nargs, missing |-> r.missing, uri |-> r.uri]

\* The arguments that name a path segment, all given as strings.
PathArgs ==
    [platform |-> ProjectArgs.platform, project |-> ProjectArgs.project,
     version |-> Str(<<"1", ".", "0">>), host |-> Str(<<"github">>),
     owner |-> Str(<<"o">>), repo |-> Str(<<"r", "%", "2", "F">>),
     user |-> Str(<<"u", "?", "v">>)]

\* Values of version= that are false in Python: the empty string and None.
FalsyVersions == {Str(<<>>), NotStr}

\* Every choice of keyword arguments among them, and the same with a version
\* that is false.
PathKwargs ==
    { [k \in S |-> PathArgs[k]] : S \in SUBSET (DOMAIN PathArgs) }
    \cup
    { Put([k \in S |-> PathArgs[k]], ArgumentTypes.VERSION, v) :
        S \in SUBSET (DOMAIN PathArgs), v \in FalsyVersions }

\* Numbers of positional arguments.
NArgs == {0, 1, 2}

\* A call of a URI handler about to be made.
UriCall(h, op, nargs, kwargs) ==
    Quiet("call", "", kwargs, "") @@ [handler |-> h, op |-> op, nargs |-> nargs]

\* A value that is a member of neither catalog.
NoSuchOperation == "no-such-operation"

\* The operations a handler is called with: the members of its own catalog,
\* a member of the other catalog and a value that is in neither.
UriOperations(h) ==
    IF h = SearchHandlers
    THEN SearchOperationTypes \cup {"user-subscriptions", NoSuchOperation}
    ELSE SubscribeOperationTypes \cup {"platforms", NoSuchOperation}

\* The calls of the handler h.
UriCalls(h) ==
    { UriCall(h, op, n, kw) : op \in UriOperations(h), n \in NArgs, kw \in PathKwargs }

InitUri ==
    /\ built = FALSE
    /\ sess = NoSession
    /\ it = NoIterator
    /\ hist = <<>>
    /\ last \in UriCalls(SearchHandlers) \cup UriCalls(SubscribeHandlers)
    /\ threads = [t \in Threads |-> NotCalling]

BuildUri ==
    /\ last.name = "call"
    /\ Built(CallUriHandler(last.handler, last.op, last.nargs, last.kwargs),
             last.handler, last.op, last.nargs, last.kwargs)
    /\ UNCHANGED <<built, sess, it, hist, threads>>

NextUri == BuildUri

SpecUri == InitUri /\ [][NextUri]_vars

(***************************************************************************)
(* Two threads making single-shot calls on one Search instance.  The calls *)
(* share self.session, a LibIOSession, and its requests.Session; no        *)
(* statement of the code takes a lock.  A thread runs make_request one     *)
(* statement at a time and the other thread may run between any two:       *)
(*   "get_session"    sess = self.get_session(req_type, ...)               *)
(*   "param_handler"  kwargs["param_handler"](op, sess.params, **kwargs)   *)
(*   "send"           getattr(sess, req_type.value)(uri), which sends the  *)
(*                    parameters the session holds at that moment          *)
(*   "finally"        the except clauses and self.clear_session_params()   *)
(* The statements before get_session touch nothing that is shared.         *)
(***************************************************************************)
\* SearchAPI.call: sess.make_request(op, GET, uri_handler=..., param_handler=..., **kwargs)
ThreadKwargs(m) == Merge(m.kwargs, Handlers(SearchHandlers))

\* Thread t is at statement pc of its call; raised is what the statement
\* before raised ("" when nothing).
Goes(t, pc, raised) ==
    [threads[t] EXCEPT !.pc = IF raised # "" THEN "finally" ELSE pc,
                       !.out = Raised(raised, NoSession)]

\* Search.<method>(...), up to uri = kwargs["uri_handler"](op, *args, **kwargs)
Entered(t, m, uri) ==
    threads' = [threads EXCEPT ![t] =
                  [pc |-> IF uri.err # "" THEN "finally" ELSE "get_session",
                   m |-> m, uri |-> uri.uri, resp |-> NoResponse,
                   out |-> Raised(uri.err, NoSession)]]

ThreadCall(t, m) ==
    /\ built
    /\ threads[t].pc = "idle"
    /\ Entered(t, m, CallUriHandler(SearchHandlers, m.op, 0, ThreadKwargs(m)))
    /\ UNCHANGED <<built, sess, it, hist, last>>

\* sess = self.get_session(req_type, include_prerelease=..., page=..., items_per_page=...)
GotSession(t, got) ==
    /\ sess' = got.sess
    /\ threads' = [threads EXCEPT ![t] = Goes(t, "param_handler", got.err)]

ThreadGetSession(t) ==
    /\ threads[t].pc = "get_session"
    /\ GotSession(t, get_session(sess, threads[t].m.req_type,
                                 KwOpt(ThreadKwargs(threads[t].m), "page"),
                                 KwOpt(ThreadKwargs(threads[t].m), "items_per_page"),
                                 FALSE, threads[t].m.req_type = POST))
    /\ UNCHANGED <<built, it, hist, last>>

\* kwargs["param_handler"](op, sess.params, **kwargs)
HandledParams(t, par) ==
    /\ sess' = [sess EXCEPT !.params = par.params]
    /\ threads' = [threads EXCEPT ![t] = Goes(t, "send", par.err)]

ThreadParamHandler(t) ==
    /\ threads[t].pc = "param_handler"
    /\ HandledParams(t, CallParamHandler(SearchHandlers, threads[t].m.op, sess.params,
                                         ThreadKwargs(threads[t].m)))
    /\ UNCHANGED <<built, it, hist, last>>

\* resp = getattr(sess, req_type.value)(uri), to the return statements
SentBy(t, resp, r) ==
    threads' = [threads EXCEPT ![t] =
                  [@ EXCEPT !.pc = "finally", !.resp = resp,
                            !.out = [r EXCEPT !.sess = NoSession]]]

ThreadSend(t, resp) ==
    /\ threads[t].pc = "send"
    /\ SentBy(t, resp,
              Dispatch(sess,
                       [verb |-> threads[t].m.req_type, uri |-> threads[t].uri,
                        params |-> sess.params, key |-> sess.key],
                       threads[t].m.req_type, resp))
    /\ UNCHANGED <<built, sess, it, hist, last>>

\* make_request: the except clauses, finally: self.clear_session_params(),
\* return ret
ThreadFinally(t) ==
    /\ threads[t].pc = "finally"
    /\ Called(HandleErrors([threads[t].out EXCEPT !.sess = sess], threads[t].m.req_type),
              threads[t].m.name, threads[t].m.req_type,
              WithIterated(threads[t].m.kwargs, FALSE), threads[t].resp)
    /\ threads' = [threads EXCEPT ![t].pc = "done"]
    /\ UNCHANGED <<built, it, hist>>

\* The calls of the threads: a page of the platforms, a search with a query,
\* filters and a sort order, and a search with the defaults.
ThreadMethods ==
    { Search_platforms(3, 50),
      Search_project_search(SearchArgs.query, SearchArgs.filters, SearchArgs.sort,
                            QB_DEFAULT_PAGE, QB_DEFAULT_PER_PAGE),
      Search_project_search(Str(<<>>), <<>>, <<>>, QB_DEFAULT_PAGE, QB_DEFAULT_PER_PAGE) }

ThreadResponses == { Response(200, "[1]"), Response(404, "{a:1}") }

NextThreads ==
    \/ Construct("k1", NoneVal)
    \/ \E t \in Threads, m \in ThreadMethods : ThreadCall(t, m)
    \/ \E t \in Threads : ThreadGetSession(t)
    \/ \E t \in Threads : ThreadParamHandler(t)
    \/ \E t \in Threads, resp \in ThreadResponses : ThreadSend(t, resp)
    \/ \E t \in Threads : ThreadFinally(t)

SpecThreads == Init /\ [][NextThreads]_vars

(***************************************************************************)
(* Properties of the single-shot caller (specification Spec).              *)
(***************************************************************************)
SearchFilterTypes == {"languages", "licenses", "keywords", "platforms"}

\* The filter keys a call supplies.
SuppliedFilters(kwargs) ==
    IF Has(kwargs, "filters") /\ kwargs["filters"] # <<>> THEN DOMAIN kwargs["filters"][1]
    ELSE {}

\* The parameters of the request the last call sent come from that call alone.
OwnParamsOnly ==
    LET p == last.req.params
        kw == last.kwargs
    IN /\ Has(p, "q") => Has(kw, "query")
       /\ Has(p, "sort") => Has(kw, "sort")
       /\ \A f \in SearchFilterTypes : Has(p, f) => f \in SuppliedFilters(kw)
       /\ Has(p, "include_prerelease") => last.req_type = POST
       /\ Has(p, "page") =>
             /\ last.req_type = GET
             /\ p["page"] = IF Has(kw, "page") THEN Max(kw["page"], 1) ELSE QB_DEFAULT_PAGE
       /\ Has(p, "per_page") =>
             /\ last.req_type = GET
             /\ p["per_page"] = IF Has(kw, "items_per_page")
                                THEN Min(Max(kw["items_per_page"], 1), PER_PAGE_MAX)
                                ELSE QB_DEFAULT_PER_PAGE

\* C1: whenever make_request has returned or raised (every state of a run of
\* single-shot calls), the parameter mapping of the session is empty, and the
\* request a call sent carries q, sort, filter, page, per_page and
\* include_prerelease values of that call only.
C1_ParamsClearedAfterEveryCall ==
    built => /\ sess.params = EmptyMap
             /\ (last.name = "make_request" /\ last.calls > 0) => OwnParamsOnly

\* A call that put q, sort and a filter into the parameters and then failed
\* with an HTTP error has returned, and the parameters are empty.
C1_Witness ==
    /\ last.name = "make_request"
    /\ last.calls = 1
    /\ last.caught = "HTTPError"
    /\ Has(last.req.params, "q")
    /\ Has(last.req.params, "keywords")
    /\ sess.params = EmptyMap

\* The API key is missing.
NoKey(key) == key = NoneVal \/ key = ""

\* What request_factory raises before it reaches the test of the key: a
\* wrong verb, and the errors of the uri_handler.
RaisedBeforeKeyTest ==
    {"InvalidHTTPOperationSupplied", "ArgumentMissingError", "UnnamedArgumentError",
     "TypeError"}

\* C2: no request is ever sent with a missing API key.  A request that was
\* sent carried a key that is neither None nor empty; a make_request or a
\* step of an iterator on a session whose key is None or empty (set_key
\* does not test the key) sends no request, request_factory raising
\* APIKeyMissingError unless the verb or the arguments failed it before.
C2_NoRequestWithoutKey ==
    /\ last.calls > 0 =>
          (~NoKey(last.req.key) /\ last.req.params["api_key"] = last.req.key)
    /\ (last.name = "make_request" /\ NoKey(sess.key)) =>
          /\ last.calls = 0
          /\ last.caught \in {"APIKeyMissingError"} \cup RaisedBeforeKeyTest
    /\ (last.name = "__next__" /\ NoKey(it.sess.key)) =>
          /\ last.calls = 0
          /\ last.caught \in {"APIKeyMissingError"} \cup RaisedBeforeKeyTest
    /\ \A i \in DOMAIN hist : hist[i].caught = "APIKeyMissingError" => hist[i].calls = 0

\* The key of the iterator's session was emptied after a page had been
\* yielded, and the next step sent nothing: APIKeyMissingError was raised.
C2_Witness ==
    /\ last.name = "__next__"
    /\ it.sess.key = ""
    /\ Len(hist) = 2
    /\ hist[1].out = "page"
    /\ hist[2].calls = 0
    /\ hist[2].caught = "APIKeyMissingError"

\* The errors of a wrong configuration or a wrong call.
ConfigErrors ==
    {"APIKeyMissingError", "ArgumentMissingError", "UnnamedArgumentError",
     "InvalidHTTPOperationSupplied"}

\* C3: a configuration error raised while a request is performed (by
\* make_request or by a step of an iterator) reaches the caller as that error.
C3_ConfigErrorsPropagate ==
    (last.name \in {"make_request", "__next__"} /\ last.caught \in ConfigErrors)
        => last.err = last.caught

\* C4: the construction of a session succeeds whatever the API key
\* argument and the environment hold; a missing key is no error there.
C4_ConstructionNeverFails ==
    last.name = "init" => (last.err = "" /\ built)

\* C5: when the HTTP call of make_request fails (an HTTP status error, a
\* retry error, or any other failure of the call made), make_request raises
\* nothing and returns {}.
C5_FailedRequestReturnsEmpty ==
    (last.name = "make_request" /\ last.calls = 1 /\ last.caught # "")
        => (last.err = "" /\ last.val = EmptyDict)

\* A DELETE that ran out of retries returned {}.
C5_Witness ==
    /\ last.name = "make_request"
    /\ last.req_type = DELETE
    /\ last.caught = "RetryError"
    /\ last.err = ""
    /\ last.val = EmptyDict

\* The last operation is a make_request that received a response with a 2xx
\* status.
GotSuccess ==
    /\ last.name = "make_request"
    /\ last.calls = 1
    /\ last.resp.exc = ""
    /\ last.resp.status >= 200
    /\ last.resp.status < 300

IsDelete204Empty ==
    last.req_type = DELETE /\ last.resp.status = 204 /\ last.resp.text = ""

\* C6 as claimed: a DELETE answered by 204 and an empty body returns the
\* status payload, and every other verb, 2xx status and body returns the
\* decoded JSON body.
C6_AsClaimed ==
    GotSuccess =>
        IF IsDelete204Empty THEN last.err = "" /\ last.val = DeleteStatusPayload
        ELSE /\ last.caught = ""
             /\ json(last.resp.text).err = ""
             /\ last.val = json(last.resp.text).val

\* C6 amended: a DELETE answered by 204 and an empty body returns the
\* status payload; for every other verb, 2xx status and body the status
\* payload is never returned: the result is the decoded JSON body when the
\* body is valid JSON, and otherwise the decoding error is caught and
\* make_request returns {}.
C6_Delete204Payload ==
    GotSuccess =>
        IF IsDelete204Empty
        THEN last.err = "" /\ last.caught = "" /\ last.val = DeleteStatusPayload
        ELSE /\ last.err = ""
             /\ ~last.val.synth
             /\ IF json(last.resp.text).err = ""
                THEN last.caught = "" /\ last.val = json(last.resp.text).val
                ELSE last.caught = "JSONDecodeError" /\ last.val = EmptyDict

\* A DELETE answered by 204 and an empty body returned the status payload.
C6_Witness == GotSuccess /\ IsDelete204Empty /\ last.val.synth

(***************************************************************************)
(* Properties of the paginating iterator (specification SpecIter).         *)
(***************************************************************************)
\* The remote answered with a page: a 2xx response whose body decodes.
DecodedPage(resp) ==
    /\ resp.exc = ""
    /\ raise_for_status(resp.status) = ""
    /\ json(resp.text).err = ""

NonEmptyPage(resp) == DecodedPage(resp) /\ Truthy(json(resp.text).val)

EmptyPage(resp) == DecodedPage(resp) /\ ~Truthy(json(resp.text).val)

\* Every step before step i sent a request and was answered by a page that
\* is not empty.
PagesBefore(i) ==
    \A j \in 1..(i - 1) : hist[j].calls = 1 /\ NonEmptyPage(hist[j].resp)

\* C7: for an iterator started at from_page = N >= 1, as long as the remote
\* has answered every request so far with a non-empty page, the i-th request
\* carries page = N + i - 1; a non-empty answer is yielded (the decoded body)
\* and moves the cursor by exactly 1, an empty answer ends the sequence with
\* StopIteration and leaves the cursor where it was.
C7_PagesInOrderThenStop ==
    (it.state = "live" /\ it.from_page >= 1) =>
        /\ \A i \in DOMAIN hist :
              (PagesBefore(i) /\ hist[i].calls = 1) =>
                  /\ hist[i].cursor = it.from_page + i - 1
                  /\ hist[i].page = hist[i].cursor
                  /\ NonEmptyPage(hist[i].resp) =>
                        (hist[i].out = "page" /\ hist[i].after = hist[i].cursor + 1)
                  /\ EmptyPage(hist[i].resp) =>
                        (hist[i].out = "StopIteration" /\ hist[i].after = hist[i].cursor)
        /\ (last.name = "__next__" /\ last.calls = 1 /\ NonEmptyPage(last.resp)) =>
              (last.err = "" /\ last.val = json(last.resp.text).val)

\* An iterator started at page 2 yielded pages 2 and 3 and stopped at the
\* empty page 4, the cursor staying at 4.
C7_Witness ==
    /\ it.state = "live"
    /\ it.from_page = 2
    /\ Len(hist) = 3
    /\ hist[1].out = "page" /\ hist[1].page = 2
    /\ hist[2].out = "page" /\ hist[2].page = 3
    /\ hist[3].page = 4 /\ EmptyPage(hist[3].resp)
    /\ hist[3].out = "StopIteration"
    /\ it.current_page = 4

\* C8: whatever from_page is, the cursor of the iterator never decreases and
\* a page number sent to the remote by a step that yielded the page is not
\* sent again by a later step.
C8_NoPageRevisited ==
    /\ \A i \in DOMAIN hist : hist[i].after >= hist[i].cursor
    /\ \A i \in DOMAIN hist : i > 1 => hist[i].cursor >= hist[i - 1].after
    /\ \A i \in DOMAIN hist : \A j \in DOMAIN hist :
          (i < j /\ hist[i].out = "page" /\ hist[j].calls = 1)
              => hist[j].page # hist[i].page

\* C9: after a step of the iterator has ended in StopIteration, every later
\* step ends in StopIteration as well and yields no page.
C9_ExhaustedIsTerminal ==
    \A i \in DOMAIN hist : \A j \in DOMAIN hist :
        (i < j /\ hist[i].out = "StopIteration") => hist[j].out = "StopIteration"

\* C27: a step of the iterator in which an exception other than TypeError
\* is raised (an HTTP error, a retry error, a body that does not decode, a
\* missing argument and so on) ends in StopIteration, a step in which a
\* TypeError is raised ends in a TypeError, and in both cases the cursor
\* keeps the value it had before the step.
C27_StepExceptionsContained ==
    \A i \in DOMAIN hist :
        hist[i].caught # "" =>
            /\ hist[i].out = (IF hist[i].caught = "TypeError" THEN "TypeError"
                              ELSE "StopIteration")
            /\ hist[i].after = hist[i].cursor

\* A page was yielded, then a step ran into a retry error and ended in
\* StopIteration; the cursor stayed where the page had left it.
C27_Witness ==
    /\ Len(hist) = 2
    /\ hist[1].out = "page"
    /\ hist[2].caught = "RetryError"
    /\ hist[2].out = "StopIteration"
    /\ hist[2].after = hist[1].after
    /\ it.current_page = hist[1].after

\* Every step so far sent its request to a remote whose collection ends
\* before page K: it answers a page below K with a body that is not empty
\* and page K and every later page with an empty list or mapping.
RemoteEndsAt(K) ==
    \A i \in DOMAIN hist :
        /\ hist[i].calls = 1
        /\ IF hist[i].page >= K THEN EmptyPage(hist[i].resp)
           ELSE NonEmptyPage(hist[i].resp)

\* Every step so far sent its request to a remote that has a page that is
\* not empty for every page number.
RemoteNeverEnds ==
    \A i \in DOMAIN hist : hist[i].calls = 1 /\ NonEmptyPage(hist[i].resp)

\* C28: iteration ends when the remote collection does.  With a remote
\* whose first empty page is K (a page number, K >= 1 and K >= from_page),
\* one of the first K - from_page + 1 steps ends in StopIteration; with a
\* remote that never answers with an empty page, no step ends in
\* StopIteration.
C28_EndsWhenRemoteEnds ==
    it.state = "live" =>
        /\ \A K \in 1..(Max(it.from_page, 1) + Len(hist)) :
              (K >= it.from_page /\ RemoteEndsAt(K) /\ Len(hist) >= K - it.from_page + 1) =>
                  \E j \in 1..(K - it.from_page + 1) : hist[j].out = "StopIteration"
        /\ RemoteNeverEnds => \A i \in DOMAIN hist : hist[i].out = "page"

\* An iterator started at page 1 of a remote whose first empty page is
\* page 2 yielded page 1 and met the end of the sequence at its second
\* request.
C28_Witness ==
    /\ it.state = "live"
    /\ it.from_page = 1
    /\ Len(hist) = 2
    /\ RemoteEndsAt(2)
    /\ hist[1].out = "page"
    /\ hist[2].page = 2
    /\ hist[2].out = "StopIteration"

\* The last operation asked for an iterator with a verb other than GET:
\* from LibIOIterableRequest itself, or from SubscribeAPI.call_iterated with
\* a LibIOSession.
NonGetIteratorAsked ==
    /\ last.req_type # GET
    /\ \/ last.name = "LibIOIterableRequest"
       \/ /\ last.name = "SubscribeAPI.call_iterated"
          /\ last.kwargs["session_class"] = "LibIOSession"

\* C10 as claimed: asking for an iterator with a verb other than GET fails
\* with InvalidHTTPOperationSupplied, no iterator (and no session of an
\* iterator) exists and no request was sent.
C10_AsClaimed ==
    NonGetIteratorAsked =>
        /\ last.err = "InvalidHTTPOperationSupplied"
        /\ it = NoIterator
        /\ last.calls = 0

\* C10 amended: asking for an iterator with a verb other than GET fails at
\* once, no iterator (and no session of an iterator) exists and no request
\* was sent; the error is InvalidHTTPOperationSupplied from
\* SubscribeAPI.call_iterated and ValueError from LibIOIterableRequest.
C10_NonGetIteratorRefused ==
    NonGetIteratorAsked =>
        /\ last.err = IF last.name = "LibIOIterableRequest" THEN "ValueError"
                      ELSE "InvalidHTTPOperationSupplied"
        /\ it = NoIterator
        /\ hist = <<>>
        /\ last.calls = 0

\* LibIOIterableRequest with an API key and the verb POST raised ValueError.
C10_Witness ==
    /\ last.name = "LibIOIterableRequest"
    /\ last.req_type = POST
    /\ Has(last.kwargs, "api_key")
    /\ last.err = "ValueError"
    /\ it = NoIterator

(***************************************************************************)
(* Properties of requests made side by side by single-shot calls and by an *)
(* iterator (specification SpecMixed).                                     *)
(***************************************************************************)
\* The last operation made a request: a single-shot call or a step.
RequestMade == last.name \in {"make_request", "__next__"}

\* The URI the handler of the last request builds for its operation.
BuiltUri ==
    IF last.name = "__next__"
    THEN CallUriHandler(KwGet(last.kwargs, "uri_handler", NoHandler),
                        it.op, it.nargs, last.kwargs)
    ELSE CallUriHandler(KwGet(last.kwargs, "uri_handler", NoHandler),
                        last.op, last.nargs, last.kwargs)

\* The key of the session the last request went through.
KeyUsed == IF last.name = "__next__" THEN it.sess.key ELSE sess.key

\* Nothing is raised before the HTTP call: the verb is one of the four, the
\* URI is built, the session has a key and the parameter handler accepts the
\* arguments.
NoErrorBeforeDispatch ==
    /\ last.req_type \in HttpOperation
    /\ BuiltUri.err = ""
    /\ KeyUsed \notin {NoneVal, ""}
    /\ CallParamHandler(KwGet(last.kwargs, "param_handler", NoHandler),
                        IF last.name = "__next__" THEN it.op ELSE last.op,
                        EmptyMap, last.kwargs).err = ""

\* C26: a single-shot call and a step of an iterator make at most one HTTP
\* call, and exactly one, with the verb given and the URI built, when
\* nothing is raised before it; no request is made a second time.
C26_AtMostOneHttpCall ==
    RequestMade =>
        /\ last.calls <= 1
        /\ (last.calls = 1) <=> NoErrorBeforeDispatch
        /\ (last.calls = 1) =>
              (last.req.verb = last.req_type /\ last.req.uri = BuiltUri.uri)

\* A step of an iterator whose HTTP call ended in a retry error: the call
\* was made once.
C26_Witness ==
    /\ last.name = "__next__"
    /\ last.resp = TransportError("RetryError")
    /\ last.calls = 1
    /\ last.req.uri = BuiltUri.uri

\* C25: an iterator can be constructed from an existing session:
\* LibIOIterableRequest(op, GET, sess=<session>), with or without api_key,
\* raises nothing, the iterator exists, and an api_key that was given is the
\* key of the session the iterator holds.
C25_IteratorFromExistingSession ==
    (/\ last.name = "LibIOIterableRequest"
     /\ last.req_type = GET
     /\ Has(last.kwargs, "sess")) =>
        /\ last.err = ""
        /\ it.state = "live"
        /\ Has(last.kwargs, "api_key") => it.sess.key = last.kwargs["api_key"]

(***************************************************************************)
(* Properties of the facades and of SearchAPI / SubscribeAPI               *)
(* (specifications SpecFacade and SpecFacadeIter).                         *)
(***************************************************************************)
\* The last operation sent a GET request.
GetDispatched == last.calls > 0 /\ last.req.verb = GET

\* The parameters of the request the last operation sent.
Sent == last.req.params

\* The session parameters the last operation found.
Prior == last.kwargs["session_params"]

ApiEntryPoints ==
    {"SearchAPI.call", "SearchAPI.call_iterated", "SubscribeAPI.call",
     "SubscribeAPI.call_iterated"}

\* C11: SearchAPI.call, SearchAPI.call_iterated, SubscribeAPI.call and
\* SubscribeAPI.call_iterated, handed a session that is not a LibIOSession,
\* raise InvalidSessionClassSupplied: nothing was caught on the way (no URI
\* was built), the session parameters are untouched, no request was sent
\* and no iterator was made.
C11_WrongSessionClassRefused ==
    (last.name \in ApiEntryPoints /\ last.kwargs["session_class"] # "LibIOSession") =>
        /\ last.err = "InvalidSessionClassSupplied"
        /\ last.caught = ""
        /\ last.calls = 0
        /\ last.req = NoRequest
        /\ sess.params = EmptyMap
        /\ last.name \in {"SearchAPI.call_iterated", "SubscribeAPI.call_iterated"}
              => it = NoIterator

\* SearchAPI.call with a complete call and a LibIOSessionBase was refused.
C11_Witness ==
    /\ last.name = "SearchAPI.call"
    /\ last.kwargs["session_class"] = "LibIOSessionBase"
    /\ Has(last.kwargs, "platform")
    /\ last.err = "InvalidSessionClassSupplied"
    /\ last.calls = 0

\* The facade methods that take page and per_page.
PaginatedFacadeMethods ==
    {"Search.platforms", "Search.user_repositories", "Search.project_search",
     "Subscribe.user_subscriptions"}

\* C14: a paginated facade method called with page = p and per_page = n
\* (not iterated) that sends its request sends it with page = max(p, 1) and
\* per_page = min(max(n, 1), 100).
C14_FacadePaginationCarried ==
    (last.name \in PaginatedFacadeMethods /\ last.calls = 1) =>
        /\ Sent["page"] = Max(last.kwargs["page"], 1)
        /\ Sent["per_page"] = Min(Max(last.kwargs["per_page"], 1), PER_PAGE_MAX)

\* C15: the first step of an iterator that a paginated facade method
\* returned for page = P sends its request with page = P (P >= 1; a smaller
\* page is clamped to 1).
C15_IteratorStartsAtSuppliedPage ==
    [][(/\ last.name \in PaginatedFacadeMethods
        /\ last.kwargs["iterated"]
        /\ it.state = "live"
        /\ hist = <<>>
        /\ hist' # <<>>)
          => (hist'[1].calls = 1 /\ hist'[1].page = Max(last.kwargs["page"], 1))]_vars

\* C29: an iterator that a facade returned has a session of its own.
\* Making it and stepping it leave the parameters and the key of the
\* facade's session as they are, and a single-shot call on the facade, the
\* clearing of the parameters at its end included, leaves the cursor of the
\* iterator and the parameters of the iterator's session as they are.
C29_IteratorSessionApart ==
    [][/\ (it' # it \/ hist' # hist) => sess' = sess
       /\ (/\ last' # last
           /\ last'.name \in PaginatedFacadeMethods
           /\ ~last'.kwargs["iterated"]) => (it' = it /\ hist' = hist)]_vars

\* An iterator of the facade has yielded a page, and the single-shot call
\* made on the facade after that sent its request; the cursor and the
\* parameters of the iterator's session are those the step left, and the
\* parameters of the facade's session are cleared.
C29_Witness ==
    /\ it.state = "live"
    /\ Len(hist) = 1
    /\ hist[1].out = "page"
    /\ it.current_page = hist[1].after
    /\ Has(it.sess.params, "page")
    /\ last.name = "Search.platforms"
    /\ ~last.kwargs["iterated"]
    /\ last.calls = 1
    /\ sess.params = EmptyMap

\* The caller of the last operation asked for prereleases.
PrereleaseAsked ==
    Has(last.kwargs, "include_prerelease") /\ last.kwargs["include_prerelease"]

\* C17: a request that was sent carries include_prerelease exactly when its
\* caller asked for it (include_prerelease=True) or its verb is POST.
C17_PrereleaseFlagCarried ==
    last.calls = 1 =>
        (Has(Sent, "include_prerelease") <=> (PrereleaseAsked \/ last.req_type = POST))

\* C18: Search.project_search (not iterated), whichever of query, filters
\* and sort are given, sends exactly one request and no error occurs on the
\* way; the request carries q, sort and a filter key exactly for the ones
\* that were given.
C18_ProjectSearchOptionalParams ==
    (last.name = "Search.project_search" /\ ~last.kwargs["iterated"]) =>
        /\ last.calls = 1
        /\ last.caught \in {"", "HTTPError"}
        /\ Has(Sent, "q") <=> (last.kwargs["query"] # Str(<<>>))
        /\ Has(Sent, "sort") <=> (last.kwargs["sort"] # <<>>)
        /\ \A f \in SearchFilterTypes : Has(Sent, f) <=> (f \in SuppliedFilters(last.kwargs))

\* The request Search.user_dependencies sends for the arguments of the last
\* call with the platform p in place of its own.
RequestWithPlatform(p) ==
    request_factory(clear_session_params(sess), "user-dependencies", GET, 0,
                    Merge([last.kwargs EXCEPT !.platform = p], Handlers(SearchHandlers)),
                    last.resp).req

\* C24: Search.user_dependencies is parameterised by the platform: the
\* request of a call differs (in its URI or its parameters) from the request
\* of the same call with any other platform, the default empty platform
\* included.
C24_PlatformParameterisesRequest ==
    (last.name = "Search.user_dependencies" /\ last.calls > 0) =>
        \A p \in PlatformInputs \ {last.kwargs.platform} :
            last.req # RequestWithPlatform(p)

(***************************************************************************)
(* Properties of concurrent single-shot calls (specification SpecThreads). *)
(***************************************************************************)
\* Thread t made its HTTP call.
Dispatched(t) == threads[t].out.calls > 0

\* The request the call of thread t sends when no other call is running:
\* the session has no parameters when the call starts.
OwnRequest(t) ==
    request_factory(clear_session_params(sess), threads[t].m.op, threads[t].m.req_type, 0,
                    ThreadKwargs(threads[t].m), threads[t].resp).req

\* C16: under every interleaving of two threads calling the same Search
\* instance, each dispatched request carries the api_key and exactly the
\* page, per_page, q, sort and filter parameters of its own call, never
\* those of the other call and never a set the other call has cleared.
C16_EachRequestCarriesItsOwnParameters ==
    \A t \in Threads :
        Dispatched(t) =>
            /\ Has(threads[t].out.req.params, "api_key")
            /\ threads[t].out.req.params["api_key"] = sess.key
            /\ threads[t].out.req.params = OwnRequest(t).params

(***************************************************************************)
(* Properties of the pagination parameters (specification SpecPages).      *)
(***************************************************************************)
\* C12: every GET request sent carries page >= 1 and 1 <= per_page <= 100.
\* A page or items_per_page out of range is clamped and the request is sent
\* all the same; without an argument and without a value already in the
\* session parameters the request carries page = 1 and per_page = 30.
C12_PaginationInRange ==
    /\ GetDispatched =>
          (Sent["page"] >= 1 /\ Sent["per_page"] >= 1 /\ Sent["per_page"] <= PER_PAGE_MAX)
    /\ (last.name \in {"request_factory", "make_request"} /\ last.req_type = GET) =>
          /\ last.calls = 1
          /\ Has(last.kwargs, "page") => Sent["page"] = Max(last.kwargs["page"], 1)
          /\ Has(last.kwargs, "items_per_page") =>
                Sent["per_page"] = Min(Max(last.kwargs["items_per_page"], 1), PER_PAGE_MAX)
    /\ (last.name = "request_factory" /\ last.req_type = GET) =>
          /\ (~Has(last.kwargs, "page") /\ ~Has(Prior, "page")) =>
                Sent["page"] = QB_DEFAULT_PAGE
          /\ (~Has(last.kwargs, "items_per_page") /\ ~Has(Prior, "per_page")) =>
                Sent["per_page"] = QB_DEFAULT_PER_PAGE

\* A GET asked for page -1 and 101 items per page on a session that held
\* other values, and was sent with page 1 and per_page 100.
C12_Witness ==
    /\ last.name = "request_factory"
    /\ GetDispatched
    /\ Has(last.kwargs, "page") /\ last.kwargs["page"] = -1
    /\ Has(last.kwargs, "items_per_page") /\ last.kwargs["items_per_page"] = 101
    /\ Has(Prior, "page") /\ Prior["page"] = 2
    /\ Sent["page"] = 1
    /\ Sent["per_page"] = 100

\* page and per_page as fix_pages takes them when called with the arguments
\* of the last call: the argument, else the value found in the session
\* parameters, else the default.
AskedPage ==
    IF last.kwargs["page"] # <<>> THEN last.kwargs["page"][1]
    ELSE IF Has(Prior, "page") THEN Prior["page"] ELSE QB_DEFAULT_PAGE

AskedPerPage ==
    IF last.kwargs["per_page"] # <<>> THEN last.kwargs["per_page"][1]
    ELSE IF Has(Prior, "per_page") THEN Prior["per_page"] ELSE QB_DEFAULT_PER_PAGE

\* C13: after fix_pages, applying fix_pages again to the page and per_page
\* it stored (given as arguments, or inherited from the parameters) changes
\* nothing and returns True; and the result of fix_pages is True exactly when
\* the stored page and per_page equal the ones asked for.
C13_FixPagesIdempotent ==
    last.name = "fix_pages" =>
        /\ fix_pages(sess.params, <<sess.params["page"]>>, <<sess.params["per_page"]>>)
              = [params |-> sess.params, valid_values_range |-> TRUE]
        /\ fix_pages(sess.params, <<>>, <<>>)
              = [params |-> sess.params, valid_values_range |-> TRUE]
        /\ Truthy(last.val) <=>
              (sess.params["page"] = AskedPage /\ sess.params["per_page"] = AskedPerPage)

\* fix_pages clamped a per_page of 101 to 100 (the page was in range) and
\* returned False.
C13_Witness ==
    /\ last.name = "fix_pages"
    /\ last.kwargs["page"] = <<2>>
    /\ last.kwargs["per_page"] = <<101>>
    /\ sess.params["page"] = 2
    /\ sess.params["per_page"] = 100
    /\ ~Truthy(last.val)

(***************************************************************************)
(* Properties of get_session (specification SpecSession).                  *)
(***************************************************************************)
\* The parameters get_session leaves in a session that had none, called
\* with the arguments of the last call and without force_recreate.
FreshSessionParams ==
    get_session([sess EXCEPT !.params = EmptyMap], last.req_type,
                last.kwargs["page"], last.kwargs["items_per_page"], FALSE,
                last.kwargs["include_prerelease"]).sess.params

\* The parameters of the request the last call of request_factory sends
\* through a session that had none.
FreshRequestParams ==
    request_factory([sess EXCEPT !.params = EmptyMap], "platforms", last.req_type, 0,
                    last.kwargs, last.resp).req.params

\* C30: get_session with force_recreate=True returns a fresh session: no
\* parameter of an earlier request is left, and its parameters carry api_key
\* equal to the stored key exactly as without force_recreate; and
\* force_recreate=True given to a request makes request_factory recreate the
\* session in this way, so that the request carries no earlier parameter.
C30_ForceRecreateGivesFreshSession ==
    /\ (last.name = "get_session" /\ last.kwargs["force_recreate"]) =>
          /\ last.err = ""
          /\ Has(sess.params, "api_key")
          /\ sess.params["api_key"] = sess.key
          /\ sess.params = FreshSessionParams
    /\ (/\ last.name = "request_factory"
        /\ Has(last.kwargs, "force_recreate")
        /\ last.calls = 1) =>
          Sent = FreshRequestParams

(***************************************************************************)
(* Properties of the URI handlers (specification SpecUri).                 *)
(***************************************************************************)
UriHandlerNames == {"SearchAPI._uri_handler", "SubscribeAPI._uri_handler"}

\* The named arguments an operation needs for its path: platform and
\* project for a project (and a version for its dependencies) and for a
\* subscription, host, owner and repo for a repository, host and user for a
\* user; none for the platforms, the project search and the subscriptions
\* of the user.
RequiredArguments(op) ==
    CASE op = "project-dependencies" -> {"platform", "project", "version"}
      [] op \in {"project", "project-dependents", "project-dependent-repositories",
                 "project-contributors", "project-sourcerank",
                 "subscribe-user-to-project", "unsubscribe-user-from-project",
                 "check-if-subscribed", "update-subscription-to-project"}
            -> {"platform", "project"}
      [] op \in {"repository", "repository-dependencies", "repository-projects"}
            -> {"host", "owner", "repo"}
      [] op \in {"user", "user-repositories", "user-packages",
                 "user-packages-contributions", "repository-contributions",
                 "user-dependencies"}
            -> {"host", "user"}
      [] OTHER -> {}

\* The required arguments the last call of a URI handler did not get.
AbsentArguments == RequiredArguments(last.op) \ DOMAIN last.kwargs

\* C19: a URI handler called (without positional arguments) for an
\* operation one of whose required named arguments is absent raises
\* ArgumentMissingError naming an absent argument, and returns no URI.
C19_MissingArgumentNamed ==
    (last.name \in UriHandlerNames /\ last.nargs = 0 /\ AbsentArguments # {}) =>
        /\ last.err = "ArgumentMissingError"
        /\ last.missing \in AbsentArguments
        /\ last.uri = <<>>

\* The URI of the dependencies of a repository was asked for without the
\* owner, the only argument absent, and ArgumentMissingError names it.
C19_Witness ==
    /\ last.name = "SearchAPI._uri_handler"
    /\ last.op = "repository-dependencies"
    /\ last.nargs = 0
    /\ AbsentArguments = {"owner"}
    /\ last.err = "ArgumentMissingError"
    /\ last.missing = "owner"

\* C20: a URI handler called with positional arguments raises
\* UnnamedArgumentError, whatever the operation and whether or not its
\* named arguments are there, and returns no URI.
C20_PositionalArgumentsRefused ==
    (last.name \in UriHandlerNames /\ last.nargs > 0) =>
        (last.err = "UnnamedArgumentError" /\ last.uri = <<>>)

\* A positional argument was given to an operation whose named arguments
\* were all absent, and UnnamedArgumentError was raised.
C20_Witness ==
    /\ last.name = "SearchAPI._uri_handler"
    /\ last.op = "project"
    /\ last.nargs = 1
    /\ last.kwargs = EmptyMap
    /\ last.err = "UnnamedArgumentError"

\* The version of the last call of a URI handler is absent or false.
VersionAbsentOrFalsy ==
    \/ ~Has(last.kwargs, "version")
    \/ last.kwargs["version"] \in FalsyVersions

\* The URI of the dependencies of the latest version of the project named
\* by the last call.
LatestDependenciesUri ==
    Join(<<LB_BASE_API_URI, quote(last.kwargs["platform"].s),
           quote(last.kwargs["project"].s), <<"latest">>, <<"dependencies">>>>)

\* C21: for the dependencies of a project, a version that is absent from
\* the keyword arguments or false (empty string, None) is replaced by the
\* segment "latest": the URI is <base>/<platform>/<project>/latest/dependencies.
C21_LatestSubstituted ==
    (/\ last.name = "SearchAPI._uri_handler"
     /\ last.op = "project-dependencies"
     /\ last.nargs = 0
     /\ {"platform", "project"} \subseteq DOMAIN last.kwargs
     /\ VersionAbsentOrFalsy) =>
        (last.err = "" /\ last.uri = LatestDependenciesUri)

\* The catalog of the handler the last call went to.
OwnCatalog ==
    IF last.name = "SearchAPI._uri_handler" THEN SearchOperationTypes
    ELSE SubscribeOperationTypes

\* C22: a URI handler given an operation that is not in its own catalog (a
\* member of the other catalog, or a value of neither) raises
\* UnknownOperationError and returns no URI.
C22_UnknownOperationRefused ==
    (last.name \in UriHandlerNames /\ last.nargs = 0 /\ last.op \notin OwnCatalog) =>
        (last.err = "UnknownOperationError" /\ last.uri = <<>>)

\* urllib.parse.unquote: the character a percent code stands for, and the
\* decoding of a segment.
DecodedChar(a, b) ==
    CASE a = "2" /\ b = "F" -> "/"
      [] a = "3" /\ b = "F" -> "?"
      [] a = "2" /\ b = "0" -> " "
      [] a = "2" /\ b = "5" -> "%"
      [] OTHER -> "&"

RECURSIVE unquote(_)
unquote(s) ==
    IF s = <<>> THEN <<>>
    ELSE IF Head(s) = "%" /\ Len(s) >= 3
    THEN <<DecodedChar(s[2], s[3])>> \o unquote(SubSeq(s, 4, Len(s)))
    ELSE <<Head(s)>> \o unquote(Tail(s))

\* The path segments of a URI: what lies between its separators.
RECURSIVE SplitPath(_, _)
SplitPath(s, cur) ==
    IF s = <<>> THEN <<cur>>
    ELSE IF Head(s) = "/" THEN <<cur>> \o SplitPath(Tail(s), <<>>)
    ELSE SplitPath(Tail(s), Append(cur, Head(s)))

DecodedSegments(uri) ==
    [i \in 1..Len(SplitPath(uri, <<>>)) |-> unquote(SplitPath(uri, <<>>)[i])]

\* The fixed order of the path arguments, and those of an operation in it.
ArgumentOrder == <<"platform", "project", "version", "host", "owner", "repo", "user">>

RequiredInOrder(op) == SelectSeq(ArgumentOrder, LAMBDA k : k \in RequiredArguments(op))

\* The literal tail of an operation's path, as the libraries.io API has it.
OperationTail(op) ==
    CASE op = "platforms" -> <<<<"platforms">>>>
      [] op = "project-search" -> <<<<"search">>>>
      [] op \in {"project-dependencies", "repository-dependencies", "user-dependencies"}
            -> <<<<"dependencies">>>>
      [] op = "project-dependents" -> <<<<"dependents">>>>
      [] op = "project-dependent-repositories" -> <<<<"dependent_repositories">>>>
      [] op = "project-contributors" -> <<<<"contributors">>>>
      [] op = "project-sourcerank" -> <<<<"sourcerank">>>>
      [] op \in {"repository-projects", "user-packages"} -> <<<<"projects">>>>
      [] op = "user-repositories" -> <<<<"repositories">>>>
      [] op = "user-packages-contributions" -> <<<<"project-contributions">>>>
      [] op = "repository-contributions" -> <<<<"repository-contributions">>>>
      [] OTHER -> <<>>

\* The base path of the family of the handler the last call went to.
FamilyBase ==
    IF last.name = "SearchAPI._uri_handler" THEN <<<<"https://libraries.io/api">>>>
    ELSE <<<<"https://libraries.io/api">>, <<"subscriptions">>>>

\* The last call gave every required argument of its operation as a string.
StringArgumentsGiven ==
    \A k \in RequiredArguments(last.op) : Has(last.kwargs, k) /\ last.kwargs[k].isstr

\* C23: for an operation of the handler's catalog called with all of its
\* required arguments as strings (reserved characters included), the URI is
\* the base path of the family, one segment per required argument in the
\* operation's fixed order and the tail of the operation if it has one, and
\* decoding the segments gives the arguments back in that order.
C23_UriRoundTrip ==
    (/\ last.name \in UriHandlerNames
     /\ last.nargs = 0
     /\ last.op \in OwnCatalog
     /\ StringArgumentsGiven) =>
        /\ last.err = ""
        /\ DecodedSegments(last.uri) =
             FamilyBase
             \o [i \in 1..Len(RequiredInOrder(last.op)) |->
                    last.kwargs[RequiredInOrder(last.op)[i]].s]
             \o OperationTail(last.op)

\* The projects of a repository whose name is "r%2F" were asked for: the
\* percent sign is in the URI as its percent code, and decoding the segment
\* once gives the name back.
C23_Witness ==
    /\ last.name = "SearchAPI._uri_handler"
    /\ last.op = "repository-projects"
    /\ last.nargs = 0
    /\ StringArgumentsGiven
    /\ last.kwargs["repo"].s = <<"r", "%", "2", "F">>
    /\ last.uri = <<"https://libraries.io/api", "/", "github", "/", "o", "/",
                    "r", "%", "2", "5", "2", "F", "/", "projects">>

====
